---- MODULE Spec2Model ----
(***************************************************************************)
(* Mail aggregation backend: the sync engine (SyncService.syncFolder and   *)
(* discoverFolders, IMAP and Microsoft Graph paths), the mirror store      *)
(* (EmailsRepository), the account store (EmailAccountsRepository) and the *)
(* BullMQ processors that drive them.                                      *)
(*                                                                         *)
(* Strings the code inspects character by character (folder paths, flags,  *)
(* special-use values, provider names, e-mail addresses) are sequences of  *)
(* one-character strings, so toLowerCase / includes / split are computed.  *)
(***************************************************************************)
EXTENDS Integers, Sequences, FiniteSets, TLC

----------------------------------------------------------------------------
(* Bounds of the model *)

\* highest UID an IMAP folder of the modelled server may hold
MaxUid == 2
\* number of rows the Email table may hold (caps the row-id counter)
MaxRows == 5
\* number of times the identity provider issues a token pair
MaxTokens == 4
\* largest chunkSize argument a caller passes to syncFolder (the processors
\* pass 50 and 100; the model scales the argument down to 1..MaxChunk)
MaxChunk == 2
\* wall clock range
MaxClock == 2
\* number of syncFolder calls direct callers make
MaxCalls == 2
\* number of soft-deleted rows
MaxTombstones == 1
\* number of jobs the queue is given
MaxJobs == 3
\* number of rows inserted into "Email" while email_fts is watched
MaxInserts == 3
\* number of folders in a listing given to discoverFolders
MaxFolders == 3

----------------------------------------------------------------------------
(* Strings *)

UpperChars == <<"A","B","C","D","E","F","G","H","I","J","K","L","M",
                "N","O","P","Q","R","S","T","U","V","W","X","Y","Z">>
LowerChars == <<"a","b","c","d","e","f","g","h","i","j","k","l","m",
                "n","o","p","q","r","s","t","u","v","w","x","y","z">>

toLowerChar(c) ==
    IF \E i \in 1..26 : UpperChars[i] = c
    THEN LowerChars[CHOOSE i \in 1..26 : UpperChars[i] = c]
    ELSE c

toUpperChar(c) ==
    IF \E i \in 1..26 : LowerChars[i] = c
    THEN UpperChars[CHOOSE i \in 1..26 : LowerChars[i] = c]
    ELSE c

toLowerCase(s) == [i \in 1..Len(s) |-> toLowerChar(s[i])]

toUpperCase(s) == [i \in 1..Len(s) |-> toUpperChar(s[i])]

\* String.prototype.includes
includes(s, sub) ==
    \E i \in 0..(Len(s) - Len(sub)) : SubSeq(s, i + 1, i + Len(sub)) = sub

\* email.split('@')[1]; <<>> stands for undefined (no '@' in the address)
splitAt1(email) ==
    IF \A i \in 1..Len(email) : email[i] # "@"
    THEN <<>>
    ELSE LET first == CHOOSE i \in 1..Len(email) :
                          /\ email[i] = "@"
                          /\ \A j \in 1..(i - 1) : email[j] # "@"
             rest  == SubSeq(email, first + 1, Len(email))
         IN  IF \A i \in 1..Len(rest) : rest[i] # "@"
             THEN rest
             ELSE SubSeq(rest, 1, (CHOOSE i \in 1..Len(rest) :
                                      /\ rest[i] = "@"
                                      /\ \A j \in 1..(i - 1) : rest[j] # "@") - 1)

\* specialUse.replace(/^\\/, '')
stripLeadingBackslash(s) == IF Len(s) > 0 /\ s[1] = "\\" THEN Tail(s) ELSE s

s_INBOX == <<"I","N","B","O","X">>
s_Sent == <<"S","e","n","t">>
s_Trash == <<"T","r","a","s","h">>
s_SentItems == <<"S","e","n","t"," ","I","t","e","m","s">>

s_gmail == <<"g","m","a","i","l">>
s_outlook == <<"o","u","t","l","o","o","k">>
s_hotmail == <<"h","o","t","m","a","i","l">>
s_yahoo == <<"y","a","h","o","o">>
s_icloud == <<"i","c","l","o","u","d">>
s_aol == <<"a","o","l">>
s_unknown == <<"u","n","k","n","o","w","n">>

\* IMAP flags and special-use values
f_Sent == <<"\\","S","e","n","t">>
f_HasNoChildren == <<"\\","H","a","s","N","o","C","h","i","l","d","r","e","n">>


e_imap == <<"a","n","n","@","o","u","t","l","o","o","k",".","c","o","m">>
e_both == <<"c","a","t","@","L","i","v","e",".","c","o","m">>

----------------------------------------------------------------------------
(* Constants of the program *)

CHUNK_SIZE == 50
INITIAL_SYNC_CHUNK_SIZE == 100
\* attempts: 3 in every queue.add call
JobAttempts == 3
\* WORKER_SETTINGS.CONCURRENCY
CONCURRENCY == 2

\* STANDARD_FOLDERS
STANDARD_FOLDERS_INBOX == s_INBOX
STANDARD_FOLDERS_SENT == s_Sent
STANDARD_FOLDERS_DRAFTS == <<"D","r","a","f","t","s">>
STANDARD_FOLDERS_TRASH == s_Trash
STANDARD_FOLDERS_SPAM == <<"S","p","a","m">>
STANDARD_FOLDERS_ARCHIVE == <<"A","r","c","h","i","v","e">>
\* the JavaScript value undefined: not a string
undefined == <<"undefined">>
\* STANDARD_FOLDERS has the six keys above: these two member reads find no key
STANDARD_FOLDERS_IMPORTANT == undefined
STANDARD_FOLDERS_STARRED == undefined

\* FOLDER_MAPPINGS[provider] as a set of <<path, canonical name>>; {} when the
\* provider has no table
FOLDER_MAPPINGS(provider) ==
    IF provider = s_gmail THEN
        { <<<<"[","G","m","a","i","l","]","/","S","e","n","t"," ","M","a","i","l">>, STANDARD_FOLDERS_SENT>>,
          <<<<"[","G","m","a","i","l","]","/","D","r","a","f","t","s">>, STANDARD_FOLDERS_DRAFTS>>,
          <<<<"[","G","m","a","i","l","]","/","T","r","a","s","h">>, STANDARD_FOLDERS_TRASH>>,
          <<<<"[","G","m","a","i","l","]","/","S","p","a","m">>, STANDARD_FOLDERS_SPAM>>,
          <<<<"[","G","m","a","i","l","]","/","A","l","l"," ","M","a","i","l">>, STANDARD_FOLDERS_ARCHIVE>> }
    ELSE IF provider = s_outlook THEN
        { <<s_SentItems, STANDARD_FOLDERS_SENT>>,
          <<<<"D","e","l","e","t","e","d"," ","I","t","e","m","s">>, STANDARD_FOLDERS_TRASH>>,
          <<<<"J","u","n","k"," ","E","m","a","i","l">>, STANDARD_FOLDERS_SPAM>> }
    ELSE IF provider = s_yahoo THEN
        { <<s_Sent, STANDARD_FOLDERS_SENT>>,
          <<<<"D","r","a","f","t">>, STANDARD_FOLDERS_DRAFTS>>,
          <<s_Trash, STANDARD_FOLDERS_TRASH>>,
          <<<<"B","u","l","k"," ","M","a","i","l">>, STANDARD_FOLDERS_SPAM>> }
    ELSE {}

\* detectProvider(email); <<>> stands for null
detectProvider(email) ==
    LET domain == toLowerCase(splitAt1(email))
    IN  IF domain = <<>> THEN <<>>
        ELSE IF domain = <<"g","m","a","i","l",".","c","o","m">> THEN s_gmail
        ELSE IF domain = <<"o","u","t","l","o","o","k",".","c","o","m">> \/ domain = <<"l","i","v","e",".","c","o","m">> THEN s_outlook
        ELSE IF domain = <<"h","o","t","m","a","i","l",".","c","o","m">> THEN s_hotmail
        ELSE IF domain = <<"y","a","h","o","o",".","c","o","m">> THEN s_yahoo
        ELSE IF domain = <<"i","c","l","o","u","d",".","c","o","m">> \/ domain = <<"m","e",".","c","o","m">> THEN s_icloud
        ELSE IF domain = <<"a","o","l",".","c","o","m">> THEN s_aol
        ELSE <<>>

\* IMAP_PROVIDERS has an entry for the provider (getProviderConfig # null)
getProviderConfig(provider) ==
    toLowerCase(provider) \in {s_gmail, s_outlook, s_hotmail, s_yahoo, s_icloud, s_aol}

\* getConfigFromEmail(email) # null
getConfigFromEmail(email) ==
    LET provider == detectProvider(email)
    IN  IF provider = <<>> THEN FALSE ELSE getProviderConfig(provider)

----------------------------------------------------------------------------
(* FolderNormalizerUtil *)

\* the folder flags consulted before the Graph names and the special-use value
normalizeFolderNameFlagsFirst(folderPath, provider, specialUse, flags) ==
    LET use       == toLowerCase(stripLeadingBackslash(specialUse))
        nameLower == toLowerCase(folderPath)
        mapping   == FOLDER_MAPPINGS(toLowerCase(provider))
        lowerPath == toLowerCase(folderPath)
    IN
    IF toUpperCase(folderPath) = s_INBOX THEN STANDARD_FOLDERS_INBOX
    ELSE IF f_Sent \in flags \/ <<"\\","S","e","n","t","M","a","i","l">> \in flags THEN STANDARD_FOLDERS_SENT
    ELSE IF <<"\\","D","r","a","f","t","s">> \in flags THEN STANDARD_FOLDERS_DRAFTS
    ELSE IF <<"\\","T","r","a","s","h">> \in flags THEN STANDARD_FOLDERS_TRASH
    ELSE IF <<"\\","J","u","n","k">> \in flags \/ <<"\\","S","p","a","m">> \in flags THEN STANDARD_FOLDERS_SPAM
    ELSE IF <<"\\","A","r","c","h","i","v","e">> \in flags THEN STANDARD_FOLDERS_ARCHIVE
    ELSE IF <<"\\","F","l","a","g","g","e","d">> \in flags \/ <<"\\","S","t","a","r","r","e","d">> \in flags THEN STANDARD_FOLDERS_STARRED
    ELSE IF nameLower = <<"i","n","b","o","x">> THEN STANDARD_FOLDERS_INBOX
    ELSE IF nameLower = <<"s","e","n","t","i","t","e","m","s">> \/ nameLower = <<"s","e","n","t"," ","i","t","e","m","s">> THEN STANDARD_FOLDERS_SENT
    ELSE IF nameLower = <<"d","e","l","e","t","e","d","i","t","e","m","s">> \/ nameLower = <<"d","e","l","e","t","e","d"," ","i","t","e","m","s">> THEN STANDARD_FOLDERS_TRASH
    ELSE IF nameLower = <<"j","u","n","k","e","m","a","i","l">> \/ nameLower = <<"j","u","n","k"," ","e","m","a","i","l">> THEN STANDARD_FOLDERS_SPAM
    ELSE IF nameLower = <<"a","r","c","h","i","v","e">> THEN STANDARD_FOLDERS_ARCHIVE
    ELSE IF nameLower = <<"d","r","a","f","t","s">> THEN STANDARD_FOLDERS_DRAFTS
    ELSE IF nameLower = <<"c","o","n","v","e","r","s","a","t","i","o","n"," ","h","i","s","t","o","r","y">> THEN <<"C","o","n","v","e","r","s","a","t","i","o","n"," ","H","i","s","t","o","r","y">>
    ELSE IF nameLower = <<"o","u","t","b","o","x">> THEN <<"O","u","t","b","o","x">>
    ELSE IF specialUse # <<>> /\ use = <<"i","n","b","o","x">> THEN STANDARD_FOLDERS_INBOX
    ELSE IF specialUse # <<>> /\ use = <<"s","e","n","t">> THEN STANDARD_FOLDERS_SENT
    ELSE IF specialUse # <<>> /\ use = <<"d","r","a","f","t","s">> THEN STANDARD_FOLDERS_DRAFTS
    ELSE IF specialUse # <<>> /\ use = <<"t","r","a","s","h">> THEN STANDARD_FOLDERS_TRASH
    ELSE IF specialUse # <<>> /\ use \in {<<"j","u","n","k">>, <<"s","p","a","m">>} THEN STANDARD_FOLDERS_SPAM
    ELSE IF specialUse # <<>> /\ use = <<"a","r","c","h","i","v","e">> THEN STANDARD_FOLDERS_ARCHIVE
    ELSE IF provider # <<>> /\ \E m \in mapping : m[1] = folderPath
         THEN (CHOOSE m \in mapping : m[1] = folderPath)[2]
    ELSE IF includes(lowerPath, <<"s","e","n","t">>) THEN STANDARD_FOLDERS_SENT
    ELSE IF includes(lowerPath, <<"d","r","a","f","t">>) THEN STANDARD_FOLDERS_DRAFTS
    ELSE IF \/ includes(lowerPath, <<"t","r","a","s","h">>)
            \/ includes(lowerPath, <<"d","e","l","e","t","e","d">>)
            \/ includes(lowerPath, <<"b","i","n">>) THEN STANDARD_FOLDERS_TRASH
    ELSE IF includes(lowerPath, <<"s","p","a","m">>) \/ includes(lowerPath, <<"j","u","n","k">>) THEN STANDARD_FOLDERS_SPAM
    ELSE IF includes(lowerPath, <<"a","r","c","h","i","v","e">>) \/ includes(lowerPath, <<"a","l","l"," ","m","a","i","l">>)
         THEN STANDARD_FOLDERS_ARCHIVE
    ELSE IF includes(lowerPath, <<"i","m","p","o","r","t","a","n","t">>) THEN STANDARD_FOLDERS_IMPORTANT
    ELSE IF includes(lowerPath, <<"s","t","a","r","r","e","d">>) \/ includes(lowerPath, <<"f","l","a","g","g","e","d">>)
         THEN STANDARD_FOLDERS_STARRED
    ELSE folderPath

\* <<>> stands for an absent specialUse; flags is a set of strings
normalizeFolderName(folderPath, provider, specialUse, flags) ==
    LET use       == toLowerCase(stripLeadingBackslash(specialUse))
        nameLower == toLowerCase(folderPath)
        mapping   == FOLDER_MAPPINGS(toLowerCase(provider))
        lowerPath == toLowerCase(folderPath)
    IN
    IF toUpperCase(folderPath) = s_INBOX THEN STANDARD_FOLDERS_INBOX
    ELSE IF specialUse # <<>> /\ use = <<"i","n","b","o","x">> THEN STANDARD_FOLDERS_INBOX
    ELSE IF specialUse # <<>> /\ use = <<"s","e","n","t">> THEN STANDARD_FOLDERS_SENT
    ELSE IF specialUse # <<>> /\ use = <<"d","r","a","f","t","s">> THEN STANDARD_FOLDERS_DRAFTS
    ELSE IF specialUse # <<>> /\ use = <<"t","r","a","s","h">> THEN STANDARD_FOLDERS_TRASH
    ELSE IF specialUse # <<>> /\ use \in {<<"j","u","n","k">>, <<"s","p","a","m">>} THEN STANDARD_FOLDERS_SPAM
    ELSE IF specialUse # <<>> /\ use = <<"a","r","c","h","i","v","e">> THEN STANDARD_FOLDERS_ARCHIVE
    ELSE IF nameLower = <<"i","n","b","o","x">> THEN STANDARD_FOLDERS_INBOX
    ELSE IF nameLower = <<"s","e","n","t","i","t","e","m","s">> \/ nameLower = <<"s","e","n","t"," ","i","t","e","m","s">> THEN STANDARD_FOLDERS_SENT
    ELSE IF nameLower = <<"d","e","l","e","t","e","d","i","t","e","m","s">> \/ nameLower = <<"d","e","l","e","t","e","d"," ","i","t","e","m","s">> THEN STANDARD_FOLDERS_TRASH
    ELSE IF nameLower = <<"j","u","n","k","e","m","a","i","l">> \/ nameLower = <<"j","u","n","k"," ","e","m","a","i","l">> THEN STANDARD_FOLDERS_SPAM
    ELSE IF nameLower = <<"a","r","c","h","i","v","e">> THEN STANDARD_FOLDERS_ARCHIVE
    ELSE IF nameLower = <<"d","r","a","f","t","s">> THEN STANDARD_FOLDERS_DRAFTS
    ELSE IF nameLower = <<"c","o","n","v","e","r","s","a","t","i","o","n"," ","h","i","s","t","o","r","y">> THEN <<"C","o","n","v","e","r","s","a","t","i","o","n"," ","H","i","s","t","o","r","y">>
    ELSE IF nameLower = <<"o","u","t","b","o","x">> THEN <<"O","u","t","b","o","x">>
    ELSE IF f_Sent \in flags \/ <<"\\","S","e","n","t","M","a","i","l">> \in flags THEN STANDARD_FOLDERS_SENT
    ELSE IF <<"\\","D","r","a","f","t","s">> \in flags THEN STANDARD_FOLDERS_DRAFTS
    ELSE IF <<"\\","T","r","a","s","h">> \in flags THEN STANDARD_FOLDERS_TRASH
    ELSE IF <<"\\","J","u","n","k">> \in flags \/ <<"\\","S","p","a","m">> \in flags THEN STANDARD_FOLDERS_SPAM
    ELSE IF <<"\\","A","r","c","h","i","v","e">> \in flags THEN STANDARD_FOLDERS_ARCHIVE
    ELSE IF <<"\\","F","l","a","g","g","e","d">> \in flags \/ <<"\\","S","t","a","r","r","e","d">> \in flags THEN STANDARD_FOLDERS_STARRED
    ELSE IF provider # <<>> /\ \E m \in mapping : m[1] = folderPath
         THEN (CHOOSE m \in mapping : m[1] = folderPath)[2]
    ELSE IF includes(lowerPath, <<"s","e","n","t">>) THEN STANDARD_FOLDERS_SENT
    ELSE IF includes(lowerPath, <<"d","r","a","f","t">>) THEN STANDARD_FOLDERS_DRAFTS
    ELSE IF \/ includes(lowerPath, <<"t","r","a","s","h">>)
            \/ includes(lowerPath, <<"d","e","l","e","t","e","d">>)
            \/ includes(lowerPath, <<"b","i","n">>) THEN STANDARD_FOLDERS_TRASH
    ELSE IF includes(lowerPath, <<"s","p","a","m">>) \/ includes(lowerPath, <<"j","u","n","k">>) THEN STANDARD_FOLDERS_SPAM
    ELSE IF includes(lowerPath, <<"a","r","c","h","i","v","e">>) \/ includes(lowerPath, <<"a","l","l"," ","m","a","i","l">>)
         THEN STANDARD_FOLDERS_ARCHIVE
    ELSE IF includes(lowerPath, <<"i","m","p","o","r","t","a","n","t">>) THEN STANDARD_FOLDERS_IMPORTANT
    ELSE IF includes(lowerPath, <<"s","t","a","r","r","e","d">>) \/ includes(lowerPath, <<"f","l","a","g","g","e","d">>)
         THEN STANDARD_FOLDERS_STARRED
    ELSE folderPath

shouldSyncFolder(folderPath) ==
    LET lowerPath == toLowerCase(folderPath)
        skipPatterns == { <<"[","g","m","a","i","l","]","/","a","l","l"," ","m","a","i","l">>, <<"n","o","t","e","s">>, <<"c","o","n","t","a","c","t","s">>, <<"c","a","l","e","n","d","a","r">>, <<"t","a","s","k","s">>,
                          <<"j","o","u","r","n","a","l">>, <<"s","y","n","c"," ","i","s","s","u","e","s">>, <<"l","o","c","a","l"," ","f","a","i","l","u","r","e","s">>,
                          <<"s","e","r","v","e","r"," ","f","a","i","l","u","r","e","s">>, <<"y","a","m","m","e","r"," ","r","o","o","t">> }
    IN  ~ \E pattern \in skipPatterns : includes(lowerPath, pattern)

getFolderPriority(folderPath) ==
    LET normalized == toUpperCase(folderPath)
    IN  IF normalized = s_INBOX THEN 100
        ELSE IF includes(normalized, <<"S","E","N","T">>) THEN 90
        ELSE IF includes(normalized, <<"D","R","A","F","T">>) THEN 80
        ELSE IF includes(normalized, <<"I","M","P","O","R","T","A","N","T">>) THEN 75
        ELSE IF includes(normalized, <<"A","R","C","H","I","V","E">>) THEN 70
        ELSE IF includes(normalized, <<"S","P","A","M">>) \/ includes(normalized, <<"J","U","N","K">>) THEN 50
        ELSE IF includes(normalized, <<"T","R","A","S","H">>) \/ includes(normalized, <<"D","E","L","E","T","E","D">>) THEN 40
        ELSE 60

\* Array.prototype.sort with the comparator priority(b) - priority(a): a
\* stable sort, here by insertion
RECURSIVE sortFoldersByPriority(_)
sortFoldersByPriority(folders) ==
    IF folders = <<>> THEN <<>>
    ELSE LET n      == Len(folders)
             sorted == sortFoldersByPriority(SubSeq(folders, 1, n - 1))
             x      == folders[n]
             \* x goes after every element whose priority is >= its own
             k      == Cardinality({ i \in 1..Len(sorted) :
                                      getFolderPriority(sorted[i]) >= getFolderPriority(x) })
         IN  SubSeq(sorted, 1, k) \o <<x>> \o SubSeq(sorted, k + 1, Len(sorted))


----------------------------------------------------------------------------
(* The modelled world *)

\* "imap": password only; "graph": Microsoft OAuth account (refresh token),
\* with or without an additional app password
AccountIds == {"imap", "graph"}
Workers == {"w1", "w2"}
\* the IMAP server and Microsoft (identity provider and Graph)
Services == {"imapd", "msgraph"}

emailOf(id) == IF id = "imap" THEN e_imap ELSE e_both

\* raw folder paths the IMAP server of an account lists
ImapFolders == <<s_INBOX, s_SentItems, s_Sent>>
ImapFolderSet == { ImapFolders[i] : i \in 1..Len(ImapFolders) }

\* Graph mailFolders listing: id, displayName, wellKnownName
GraphFolders == << [id |-> "f1", displayName |-> <<"I","n","b","o","x">>, wellKnownName |-> <<>>],
                   [id |-> "f2", displayName |-> s_SentItems, wellKnownName |-> <<>>] >>
GraphFolderNames == { GraphFolders[i].displayName : i \in 1..Len(GraphFolders) }

NULL == 0

Max(S) == CHOOSE x \in S : \A y \in S : y <= x
Min(S) == CHOOSE x \in S : \A y \in S : x <= y
MaxOr0(S) == IF S = {} THEN 0 ELSE Max(S)
Range(q) == { q[i] : i \in 1..Len(q) }

VARIABLES
    accounts,     \* EmailAccount table: id -> row
    emails,       \* Email table: set of rows
    nextId,       \* next Email primary key
    imapBox,      \* IMAP server: account -> raw folder -> set of UIDs present
    imapBad,      \* <<account, raw folder, uid>> whose source mailparser rejects
    graphMsgs,    \* Graph mailbox: set of messages
    upstream,     \* service -> "ok" | "down" | "rejected"
    issued,       \* number of token pairs the identity provider has issued
    clock,        \* wall clock
    pc,           \* worker -> position in syncFolder / process
    loc,          \* worker -> local variables of the running call
    job,          \* account -> the BullMQ sync job queued or run for it
    calls,        \* number of syncFolder calls made by direct callers
    hist,         \* worker -> observations about the running call (history)
    done,         \* the <<account, folder>> whose last syncFolder returned and after
                  \* whose return the Email table has not changed (history)
    cache,        \* cache-manager store: set of [key, value, expiresAt]
    email_fts,    \* email_fts table: sequence of [email_id, search_vector]
    locks,        \* mailbox locks held on the IMAP connection: set of <<worker, folder>>
    call,         \* the last application of a utility function: arguments and result
    refreshTokens \* RefreshToken table: set of rows

vars == << accounts, emails, nextId, imapBox, imapBad, graphMsgs, upstream,
           issued, clock, pc, loc, job, calls, hist, done,
           cache, email_fts, locks, call, refreshTokens >>

\* no utility function has been applied
NoCall == [fn |-> "none", args |-> <<>>, result |-> <<>>]

\* an empty cache, an empty email_fts table, no mailbox lock held
InitStores ==
    /\ cache = {}
    /\ email_fts = <<>>
    /\ locks = {}
    /\ call = NoCall
    /\ refreshTokens = {}

----------------------------------------------------------------------------
(* EmailsRepository *)

\* prisma.email.createMany({data, skipDuplicates: true}): rows whose
\* (accountId, uid, folder) is already present are skipped; returns the table,
\* the next key and result.count
RECURSIVE createManyRec(_, _, _, _)
createManyRec(rows, nid, data, count) ==
    IF data = <<>> THEN [rows |-> rows, nextId |-> nid, count |-> count]
    ELSE LET d == Head(data)
         IN  IF \E r \in rows : /\ r.accountId = d.accountId
                                /\ r.uid = d.uid
                                /\ r.folder = d.folder
             THEN createManyRec(rows, nid, Tail(data), count)
             ELSE createManyRec(
                    rows \cup {[id |-> nid, accountId |-> d.accountId, uid |-> d.uid,
                                folder |-> d.folder, messageId |-> d.messageId,
                                isRead |-> d.isRead, deletedAt |-> NULL]},
                    nid + 1, Tail(data), count + 1)

\* createMany as an upsert: a row whose triple is present is overwritten
RECURSIVE createManyUpsertRec(_, _, _, _)
createManyUpsertRec(rows, nid, data, count) ==
    IF data = <<>> THEN [rows |-> rows, nextId |-> nid, count |-> count]
    ELSE LET d    == Head(data)
             same == { r \in rows : /\ r.accountId = d.accountId
                                    /\ r.uid = d.uid
                                    /\ r.folder = d.folder }
         IN  IF same # {}
             THEN createManyUpsertRec(
                    (rows \ same) \cup
                       { [r EXCEPT !.messageId = d.messageId, !.isRead = d.isRead,
                                   !.deletedAt = NULL] : r \in same },
                    nid, Tail(data), count + 1)
             ELSE createManyUpsertRec(
                    rows \cup {[id |-> nid, accountId |-> d.accountId, uid |-> d.uid,
                                folder |-> d.folder, messageId |-> d.messageId,
                                isRead |-> d.isRead, deletedAt |-> NULL]},
                    nid + 1, Tail(data), count + 1)

createManyUpsert(rows, nid, data) == createManyUpsertRec(rows, nid, data, 0)

\* createMany without skipDuplicates: every row of data is inserted
RECURSIVE createManyNoSkipRec(_, _, _, _)
createManyNoSkipRec(rows, nid, data, count) ==
    IF data = <<>> THEN [rows |-> rows, nextId |-> nid, count |-> count]
    ELSE LET d == Head(data)
         IN  createManyNoSkipRec(
                rows \cup {[id |-> nid, accountId |-> d.accountId, uid |-> d.uid,
                            folder |-> d.folder, messageId |-> d.messageId,
                            isRead |-> d.isRead, deletedAt |-> NULL]},
                nid + 1, Tail(data), count + 1)

createManyNoSkip(rows, nid, data) == createManyNoSkipRec(rows, nid, data, 0)

createMany(rows, nid, data) == createManyRec(rows, nid, data, 0)

\* count({where: {uid, folder, accountId}}) > 0: soft-deleted rows count too
existsByUidFolderAndAccount(rows, uid, folder, accountId) ==
    Cardinality({ r \in rows : r.uid = uid /\ r.folder = folder
                                 /\ r.accountId = accountId }) > 0

\* findFirst({where: {accountId, folder}, orderBy: {uid: 'desc'}})?.uid || 0
getHighestUid(rows, accountId, folder) ==
    MaxOr0({ r.uid : r \in { x \in rows : x.accountId = accountId /\ x.folder = folder } })

\* MAX(uid) over the mirror rows of the account, or 0
getGlobalHighestUid(rows, accountId) ==
    MaxOr0({ r.uid : r \in { x \in rows : x.accountId = accountId } })

\* prisma.email.update({where: {id}, data: {deletedAt: new Date()}})
softDelete(rows, id, now) ==
    { IF r.id = id THEN [r EXCEPT !.deletedAt = now] ELSE r : r \in rows }

----------------------------------------------------------------------------
(* ImapClientUtil and EmailParserUtil *)

\* getFolderMetadata(folder): special-use attribute and flags of the folder
getFolderMetadata(folder) ==
    IF folder = s_SentItems
    THEN [specialUse |-> f_Sent, flags |-> {f_HasNoChildren, f_Sent}]
    ELSE [specialUse |-> <<>>, flags |-> {f_HasNoChildren}]

\* searchUidsFromStart(folder, startUid): the UIDs >= startUid present
searchUidsFromStart(box, folder, startUid) ==
    IF folder \in DOMAIN box THEN { u \in box[folder] : u >= startUid } ELSE {}

RECURSIVE sortDescending(_)
RECURSIVE sortDescendingLowestFirst(_)
\* the sort with the comparator (a, b) => a - b
sortDescendingLowestFirst(S) ==
    IF S = {} THEN <<>> ELSE <<Min(S)>> \o sortDescendingLowestFirst(S \ {Min(S)})

\* existingUids.sort((a, b) => b - a)
sortDescending(S) ==
    IF S = {} THEN <<>> ELSE <<Max(S)>> \o sortDescending(S \ {Max(S)})

\* fetchEmailsByUid(folder, uidStart, uidEnd): UID FETCH uidStart:uidEnd, the
\* messages in ascending UID order
RECURSIVE sortAscending(_)
sortAscending(S) ==
    IF S = {} THEN <<>> ELSE <<Min(S)>> \o sortAscending(S \ {Min(S)})

fetchEmailsByUid(box, folder, uidStart, uidEnd) ==
    sortAscending({ u \in box[folder] : u >= uidStart /\ u <= uidEnd })

\* messages.reverse()
reverse(q) == [i \in 1..Len(q) |-> q[Len(q) + 1 - i]]

\* sortedUids.slice(i, i + chunkSize), i zero-based
slice(q, i, j) == SubSeq(q, i + 1, IF j > Len(q) THEN Len(q) ELSE j)

\* getHighestUid(folder): status.uidNext ? status.uidNext - 1 : 0
adapterHighestUid(box, folder) ==
    LET uidNext == MaxOr0(box[folder]) + 1
    IN  IF uidNext # 0 THEN uidNext - 1 ELSE 0

\* EmailParserUtil.parseEmail throws for this message
parseEmailThrows(bad, acc, folder, uid) == <<acc, folder, uid>> \in bad


----------------------------------------------------------------------------
(* SyncService.syncFolder: entry, exits and the IMAP path *)

NoResult == [emailsSynced |-> 0, highestUid |-> 0]
NoAccount == [exists |-> FALSE, userId |-> "none",
              email |-> <<>>, password |-> FALSE, refreshToken |-> NULL,
              accessToken |-> NULL, lastFetchedUid |-> NULL,
              lastSyncedAt |-> NULL, flags |-> <<>>]

\* no RefreshToken row
NoToken == [id |-> NULL, userId |-> "none", tokenHash |-> NULL, expiresAt |-> NULL,
            isRevoked |-> FALSE, replacedBy |-> NULL]

\* local variables of a call before it starts
IdleLoc == [accountId |-> "imap", folder |-> <<>>, chunkSize |-> 0, caller |-> "none",
            path |-> "none", account |-> NoAccount, normalizedFolder |-> <<>>,
            lastUid |-> 0, startUid |-> 0, sortedUids |-> <<>>, highestUid |-> 0,
            i |-> 0, messages |-> <<>>, emailsToCreate |-> <<>>, totalSynced |-> 0,
            tokens |-> [accessToken |-> NULL, refreshToken |-> NULL],
            matchedFolder |-> "none", currentHighestUid |-> 0,
            flagName |-> <<>>, flags |-> <<>>,
            result |-> NoResult, error |-> "none", parseFailed |-> FALSE,
            dto |-> [userId |-> "none", email |-> <<>>, appPassword |-> "none"],
            exists |-> FALSE, linkedAtCall |-> FALSE, validation |-> "none",
            persisted |-> "none", queued |-> <<>>,
            tokenId |-> NULL, tokenSecret |-> NULL, storedToken |-> NoToken,
            newRefreshToken |-> <<NULL, NULL>>]

IdleHist == [atCall |-> {}, afterDone |-> FALSE,
             disturbed |-> FALSE, peers |-> {}, usedToken |-> FALSE,
             interrupted |-> {}]

\* the (account, folder) of the call worker w made last, if that call threw
\* on the IMAP path after it had stored a chunk and before its last chunk
InterruptedRun(w) ==
    IF /\ pc[w] = "threw"
       /\ loc[w].path = "imap"
       /\ loc[w].totalSynced > 0
       /\ loc[w].i < Len(loc[w].sortedUids)
    THEN {<<loc[w].accountId, loc[w].folder>>}
    ELSE {}

\* another actor changed the Email table: every call in progress observes it
Disturb(h, actor) ==
    [x \in Workers |-> IF x # actor /\ pc[x] # "idle"
                       THEN [h[x] EXCEPT !.disturbed = TRUE] ELSE h[x]]

\* syncFolder(accountId, folder, chunkSize) is entered by worker w
EnterSyncFolder(w, accountId, folder, chunkSize, caller) ==
    /\ pc' = [pc EXCEPT ![w] = "findById"]
    /\ loc' = [loc EXCEPT ![w] = [IdleLoc EXCEPT !.accountId = accountId,
                                                 !.folder = folder,
                                                 !.chunkSize = chunkSize,
                                                 !.caller = caller]]
    /\ hist' = [hist EXCEPT ![w] =
                  [IdleHist EXCEPT
                     !.atCall = emails,
                     !.afterDone = (<<accountId, folder>> \in done),
                     !.interrupted = hist[w].interrupted \cup InterruptedRun(w),
                     !.peers = { x \in Workers \ {w} :
                                   /\ pc[x] \notin {"idle", "returned", "threw"}
                                   /\ loc[x].accountId = accountId
                                   /\ loc[x].folder = folder }]]

\* a direct caller invokes syncFolder for the first time
CallSyncFolder(w, accountId, folder, chunkSize) ==
    /\ pc[w] = "idle"
    /\ calls' = calls + 1
    /\ EnterSyncFolder(w, accountId, folder, chunkSize, "direct")
    /\ UNCHANGED << accounts, emails, nextId, imapBox, imapBad, graphMsgs,
                    upstream, issued, clock, job, done,
                    cache, email_fts, locks, call, refreshTokens >>

\* a direct caller whose previous call has ended invokes syncFolder again
CallAgain(w, accountId, folder, chunkSize) ==
    /\ pc[w] \in {"returned", "threw"}
    /\ loc[w].caller = "direct"
    /\ calls < MaxCalls
    /\ calls' = calls + 1
    /\ EnterSyncFolder(w, accountId, folder, chunkSize, "direct")
    /\ UNCHANGED << accounts, emails, nextId, imapBox, imapBad, graphMsgs,
                    upstream, issued, clock, job, done,
                    cache, email_fts, locks, call, refreshTokens >>

\* const account = await findById(accountId); branch on account.refreshToken
FindById(w) ==
    /\ pc[w] = "findById"
    /\ LET a == accounts[loc[w].accountId]
       IN  /\ loc' = [loc EXCEPT ![w].account = a,
                                 ![w].path = IF a.refreshToken # NULL THEN "graph" ELSE "imap"]
           /\ pc' = [pc EXCEPT ![w] = IF a.refreshToken # NULL
                                      THEN "graph_refresh" ELSE "imap_connect"]
    /\ UNCHANGED << accounts, emails, nextId, imapBox, imapBad, graphMsgs,
                    upstream, issued, clock, job, hist, done, calls,
                    cache, email_fts, locks, call, refreshTokens >>

\* the call ends by throwing err
Throws(w, err) ==
    /\ pc' = [pc EXCEPT ![w] = "threw"]
    /\ loc' = [loc EXCEPT ![w].error = err]

\* the call ends by returning {emailsSynced, highestUid}
Returns(w, emailsSynced, highestUid) ==
    /\ pc' = [pc EXCEPT ![w] = "returned"]
    /\ loc' = [loc EXCEPT ![w].result = [emailsSynced |-> emailsSynced,
                                         highestUid |-> highestUid]]
    /\ done' = done \cup {<<loc[w].accountId, loc[w].folder>>}

\* the error a request to the service fails with
UpstreamError(svc) ==
    IF upstream[svc] = "down" THEN "ProviderUnavailable" ELSE "CredentialRejected"

\* password check, decrypt, getConfigFromEmail, client.connect(),
\* getFolderMetadata and normalizeFolderName
ImapConnect(w) ==
    /\ pc[w] = "imap_connect"
    /\ LET a        == loc[w].account
           id       == loc[w].accountId
           provider == detectProvider(a.email)
           meta     == getFolderMetadata(loc[w].folder)
       IN  IF ~ a.password THEN Throws(w, "NoCredentials")
           ELSE IF ~ getConfigFromEmail(a.email) THEN Throws(w, "NoImapConfig")
           ELSE IF upstream["imapd"] # "ok" THEN Throws(w, UpstreamError("imapd"))
           ELSE /\ pc' = [pc EXCEPT ![w] = "imap_highest"]
                /\ loc' = [loc EXCEPT
                     ![w].path = "imap",
                     ![w].normalizedFolder =
                         normalizeFolderName(loc[w].folder,
                                             IF provider = <<>> THEN s_unknown ELSE provider,
                                             meta.specialUse, meta.flags)]
    /\ UNCHANGED << accounts, emails, nextId, imapBox, imapBad, graphMsgs,
                    upstream, issued, clock, job, hist, done, calls,
                    cache, email_fts, locks, call, refreshTokens >>

\* lastUid = await getHighestUid(accountId, normalizedFolder); startUid = lastUid + 1
ImapGetHighestUid(w) ==
    /\ pc[w] = "imap_highest"
    /\ LET lastUid == getHighestUid(emails, loc[w].accountId, loc[w].normalizedFolder)
       IN  loc' = [loc EXCEPT ![w].lastUid = lastUid, ![w].startUid = lastUid + 1]
    /\ pc' = [pc EXCEPT ![w] = "imap_search"]
    /\ UNCHANGED << accounts, emails, nextId, imapBox, imapBad, graphMsgs,
                    upstream, issued, clock, job, hist, done, calls,
                    cache, email_fts, locks, call, refreshTokens >>

\* existingUids = await searchUidsFromStart(folder, startUid); return early
\* when empty, else sort descending
ImapSearch(w) ==
    /\ pc[w] = "imap_search"
    /\ LET id           == loc[w].accountId
           existingUids == searchUidsFromStart(imapBox[id], loc[w].folder, loc[w].startUid)
           sortedUids   == sortDescending(existingUids)
       IN  IF upstream["imapd"] # "ok"
           THEN /\ Throws(w, UpstreamError("imapd"))
                /\ UNCHANGED done
           ELSE IF existingUids = {}
           THEN Returns(w, 0, loc[w].lastUid)
           ELSE /\ pc' = [pc EXCEPT ![w] = "imap_fetch"]
                /\ loc' = [loc EXCEPT ![w].sortedUids = sortedUids,
                                      ![w].highestUid = sortedUids[1],
                                      ![w].totalSynced = 0,
                                      ![w].i = 0]
                /\ UNCHANGED done
    /\ UNCHANGED << accounts, emails, nextId, imapBox, imapBad, graphMsgs,
                    upstream, issued, clock, job, hist, calls,
                    cache, email_fts, locks, call, refreshTokens >>

\* loop head; chunkUids = sortedUids.slice(i, i + chunkSize);
\* messages = await fetchEmailsByUid(folder, min(chunkUids), max(chunkUids))
ImapFetchChunk(w) ==
    /\ pc[w] = "imap_fetch"
    /\ LET id        == loc[w].accountId
           chunkUids == slice(loc[w].sortedUids, loc[w].i, loc[w].i + loc[w].chunkSize)
       IN  IF loc[w].i >= Len(loc[w].sortedUids)
           THEN /\ pc' = [pc EXCEPT ![w] = "imap_updateSyncState"]
                /\ loc' = loc
           ELSE IF upstream["imapd"] # "ok"
           THEN Throws(w, UpstreamError("imapd"))
           ELSE /\ pc' = [pc EXCEPT ![w] = "imap_filter"]
                /\ loc' = [loc EXCEPT ![w].messages =
                              fetchEmailsByUid(imapBox[id], loc[w].folder,
                                               Min(Range(chunkUids)), Max(Range(chunkUids)))]
    /\ UNCHANGED << accounts, emails, nextId, imapBox, imapBad, graphMsgs,
                    upstream, issued, clock, job, hist, done, calls,
                    cache, email_fts, locks, call, refreshTokens >>

\* the row the IMAP path builds for a parsed message
ImapRow(accountId, uid, rawFolder, normalizedFolder) ==
    [accountId |-> accountId, uid |-> uid, folder |-> normalizedFolder,
     messageId |-> <<rawFolder, uid>>, isRead |-> FALSE]

\* for (const message of messages.reverse()): skip when the row exists, skip
\* (catch) when parseEmail throws, else push the row
RECURSIVE ImapCollect(_, _, _, _, _)
ImapCollect(rows, bad, l, msgs, acc) ==
    IF msgs = <<>> THEN acc
    ELSE LET uid == Head(msgs)
         IN  IF existsByUidFolderAndAccount(rows, uid, l.normalizedFolder, l.accountId)
             THEN ImapCollect(rows, bad, l, Tail(msgs), acc)
             ELSE IF parseEmailThrows(bad, l.accountId, l.folder, uid)
             THEN ImapCollect(rows, bad, l, Tail(msgs), acc)
             ELSE ImapCollect(rows, bad, l, Tail(msgs),
                     Append(acc, ImapRow(l.accountId, uid, l.folder, l.normalizedFolder)))

\* a parse failure was caught in this chunk
ImapParseFailure(rows, bad, l, msgs) ==
    \E k \in 1..Len(msgs) :
        /\ ~ existsByUidFolderAndAccount(rows, msgs[k], l.normalizedFolder, l.accountId)
        /\ parseEmailThrows(bad, l.accountId, l.folder, msgs[k])

\* the existence checks and parses of one chunk.  The per-message reads are
\* taken together: sync only appends rows and the batch insert below skips
\* whatever appeared in between.
ImapFilterChunk(w) ==
    /\ pc[w] = "imap_filter"
    /\ loc' = [loc EXCEPT
          ![w].emailsToCreate =
              IF Len(loc[w].messages) > 0
              THEN ImapCollect(emails, imapBad, loc[w], reverse(loc[w].messages), <<>>)
              ELSE <<>>,
          ![w].parseFailed =
              loc[w].parseFailed
                \/ ImapParseFailure(emails, imapBad, loc[w], loc[w].messages)]
    /\ pc' = [pc EXCEPT ![w] = "imap_create"]
    /\ UNCHANGED << accounts, emails, nextId, imapBox, imapBad, graphMsgs,
                    upstream, issued, clock, job, hist, done, calls,
                    cache, email_fts, locks, call, refreshTokens >>

\* the batch insert counting the fetched messages instead of the stored rows
ImapCreateManyCountFetched(w) ==
    /\ pc[w] = "imap_create"
    /\ LET data == loc[w].emailsToCreate
           res  == createMany(emails, nextId, data)
       IN  /\ res.nextId <= MaxRows + 1
           /\ emails' = res.rows
           /\ nextId' = res.nextId
           /\ loc' = [loc EXCEPT
                 ![w].totalSynced = @ + Len(loc[w].messages),
                 ![w].i = @ + loc[w].chunkSize]
           /\ hist' = IF res.rows # emails THEN Disturb(hist, w) ELSE hist
           /\ done' = IF res.rows # emails THEN {} ELSE done
    /\ pc' = [pc EXCEPT ![w] = "imap_fetch"]
    /\ UNCHANGED << accounts, imapBox, imapBad, graphMsgs, upstream, issued,
                    clock, job, calls,
                    cache, email_fts, locks, call, refreshTokens >>

\* if (emailsToCreate.length > 0) totalSynced += await createMany(emailsToCreate);
\* i += chunkSize
ImapCreateMany(w) ==
    /\ pc[w] = "imap_create"
    /\ LET data == loc[w].emailsToCreate
           res  == createMany(emails, nextId, data)
       IN  /\ res.nextId <= MaxRows + 1
           /\ emails' = res.rows
           /\ nextId' = res.nextId
           /\ loc' = [loc EXCEPT
                 ![w].totalSynced = IF Len(data) > 0 THEN @ + res.count ELSE @,
                 ![w].i = @ + loc[w].chunkSize]
           /\ hist' = IF res.rows # emails THEN Disturb(hist, w) ELSE hist
           /\ done' = IF res.rows # emails THEN {} ELSE done
    /\ pc' = [pc EXCEPT ![w] = "imap_fetch"]
    /\ UNCHANGED << accounts, imapBox, imapBad, graphMsgs, upstream, issued,
                    clock, job, calls,
                    cache, email_fts, locks, call, refreshTokens >>

\* updateSyncState writing the time of the sync but not the uid
updateSyncStateTimeOnly(accts, id, lastFetchedUid, lastSyncedAt) ==
    [accts EXCEPT ![id].lastSyncedAt = lastSyncedAt]

\* EmailAccountsRepository.updateSyncState(id, lastFetchedUid, lastSyncedAt)
updateSyncState(accts, id, lastFetchedUid, lastSyncedAt) ==
    [accts EXCEPT ![id].lastFetchedUid = lastFetchedUid,
                  ![id].lastSyncedAt = lastSyncedAt]

\* await updateSyncState(accountId, highestUid, new Date())
ImapUpdateSyncState(w) ==
    /\ pc[w] = "imap_updateSyncState"
    /\ accounts' = updateSyncState(accounts, loc[w].accountId, loc[w].highestUid, clock)
    /\ loc' = [loc EXCEPT ![w].flagName = loc[w].folder]
    /\ pc' = [pc EXCEPT ![w] = "flag_read"]
    /\ UNCHANGED << emails, nextId, imapBox, imapBad, graphMsgs, upstream,
                    issued, clock, job, hist, done, calls,
                    cache, email_fts, locks, call, refreshTokens >>

\* addFolderFlag, first half: account = await findById(id); flags = account.flags
AddFolderFlagRead(w) ==
    /\ pc[w] = "flag_read"
    /\ loc' = [loc EXCEPT ![w].flags = accounts[loc[w].accountId].flags]
    /\ pc' = [pc EXCEPT ![w] = "flag_write"]
    /\ UNCHANGED << accounts, emails, nextId, imapBox, imapBad, graphMsgs,
                    upstream, issued, clock, job, hist, done, calls,
                    cache, email_fts, locks, call, refreshTokens >>

\* addFolderFlag, second half: push when absent, update(id, {flags}); then
\* syncFolder returns its result
AddFolderFlagWrite(w) ==
    /\ pc[w] = "flag_write"
    /\ LET flags == IF loc[w].flagName \in Range(loc[w].flags)
                    THEN loc[w].flags ELSE Append(loc[w].flags, loc[w].flagName)
       IN  accounts' = [accounts EXCEPT ![loc[w].accountId].flags = flags]
    /\ IF loc[w].path = "imap"
       THEN Returns(w, loc[w].totalSynced, loc[w].highestUid)
       ELSE Returns(w, loc[w].totalSynced, loc[w].currentHighestUid)
    /\ UNCHANGED << emails, nextId, imapBox, imapBad, graphMsgs, upstream,
                    issued, clock, job, hist, calls,
                    cache, email_fts, locks, call, refreshTokens >>

----------------------------------------------------------------------------
(* SyncService.syncFolder: the Microsoft Graph path *)

\* catch (error) of the Graph block: rethrow without a password, else fall
\* through to the IMAP path
GraphCatch(w, err) ==
    IF ~ loc[w].account.password
    THEN Throws(w, err)
    ELSE /\ pc' = [pc EXCEPT ![w] = "imap_connect"]
         /\ loc' = [loc EXCEPT ![w].error = err]

\* tokens = await refreshMicrosoftToken(account.refreshToken): the identity
\* provider issues a fresh pair, or the call throws
GraphRefresh(w) ==
    /\ pc[w] = "graph_refresh"
    /\ LET id == loc[w].accountId
       IN  IF upstream["msgraph"] # "ok"
           THEN /\ GraphCatch(w, UpstreamError("msgraph"))
                /\ UNCHANGED issued
           ELSE /\ issued < MaxTokens
                /\ issued' = issued + 1
                /\ loc' = [loc EXCEPT ![w].tokens = [accessToken |-> issued + 1,
                                                     refreshToken |-> issued + 1]]
                /\ pc' = [pc EXCEPT ![w] = "graph_updateTokens"]
    /\ UNCHANGED << accounts, emails, nextId, imapBox, imapBad, graphMsgs,
                    upstream, clock, job, hist, done, calls,
                    cache, email_fts, locks, call, refreshTokens >>

\* await emailAccountsRepository.update(account.id, {accessToken, refreshToken})
GraphUpdateTokens(w) ==
    /\ pc[w] = "graph_updateTokens"
    /\ accounts' = [accounts EXCEPT
          ![loc[w].accountId].accessToken = loc[w].tokens.accessToken,
          ![loc[w].accountId].refreshToken = loc[w].tokens.refreshToken]
    /\ pc' = [pc EXCEPT ![w] = "graph_listFolders"]
    /\ UNCHANGED << emails, nextId, imapBox, imapBad, graphMsgs, upstream,
                    issued, clock, job, loc, hist, done, calls,
                    cache, email_fts, locks, call, refreshTokens >>

\* account.lastFetchedUid || 0
lastFetchedUidOr0(a) == IF a.lastFetchedUid = NULL THEN 0 ELSE a.lastFetchedUid

\* folders = await client.listFolders(): the first request made with the new
\* access token; matchedFolder = folders.find(f => f.displayName === folder)
GraphListFolders(w) ==
    /\ pc[w] = "graph_listFolders"
    /\ LET id == loc[w].accountId
           matches == { k \in 1..Len(GraphFolders) :
                          GraphFolders[k].displayName = loc[w].folder }
       IN  IF upstream["msgraph"] # "ok"
           THEN /\ GraphCatch(w, UpstreamError("msgraph"))
                /\ UNCHANGED done
           ELSE IF matches = {}
           THEN Returns(w, 0, Max({lastFetchedUidOr0(loc[w].account),
                                   getGlobalHighestUid(emails, id)}))
           ELSE /\ pc' = [pc EXCEPT ![w] = "graph_fetch"]
                /\ loc' = [loc EXCEPT ![w].matchedFolder = GraphFolders[Min(matches)].id]
                /\ UNCHANGED done
    /\ hist' = [hist EXCEPT ![w].usedToken = (upstream["msgraph"] = "ok")]
    /\ UNCHANGED << accounts, emails, nextId, imapBox, imapBad, graphMsgs,
                    upstream, issued, clock, job, calls,
                    cache, email_fts, locks, call, refreshTokens >>

\* GraphClientUtil.fetchNewMessages(folderId, since): the messages of the
\* folder with receivedDateTime >= since, newest first.  The pages of 50 and
\* the stop after more than 500 messages are never reached by the modelled
\* mailboxes.
RECURSIVE newestFirst(_)
newestFirst(M) ==
    IF M = {} THEN <<>>
    ELSE LET m == CHOOSE x \in M : \A y \in M :
                      \/ x.receivedDateTime > y.receivedDateTime
                      \/ (x.receivedDateTime = y.receivedDateTime /\ x.id >= y.id)
         IN  <<m>> \o newestFirst(M \ {m})

fetchNewMessages(msgs, folderId, since) ==
    newestFirst({ m \in msgs : m.folderId = folderId /\ m.receivedDateTime >= since })

GraphFolderById(fid) ==
    GraphFolders[CHOOSE k \in 1..Len(GraphFolders) : GraphFolders[k].id = fid]

\* messages = await client.fetchNewMessages(matchedFolder.id,
\*                                          account.lastSyncedAt || new Date(0))
GraphFetch(w) ==
    /\ pc[w] = "graph_fetch"
    /\ LET id       == loc[w].accountId
           f        == GraphFolderById(loc[w].matchedFolder)
           messages == fetchNewMessages(graphMsgs, f.id, loc[w].account.lastSyncedAt)
       IN  IF upstream["msgraph"] # "ok"
           THEN /\ GraphCatch(w, UpstreamError("msgraph"))
                /\ UNCHANGED done
           ELSE IF Len(messages) = 0
           THEN Returns(w, 0, Max({lastFetchedUidOr0(loc[w].account),
                                   getGlobalHighestUid(emails, id)}))
           ELSE /\ pc' = [pc EXCEPT ![w] = "graph_build"]
                /\ loc' = [loc EXCEPT
                      ![w].messages = messages,
                      ![w].normalizedFolder =
                          normalizeFolderName(f.displayName, s_outlook, f.wellKnownName, {})]
                /\ UNCHANGED done
    /\ UNCHANGED << accounts, emails, nextId, imapBox, imapBad, graphMsgs,
                    upstream, issued, clock, job, hist, calls,
                    cache, email_fts, locks, call, refreshTokens >>

\* the Graph loop numbering a row before it increments currentHighestUid
GraphRowsPostIncrement(accountId, normalizedFolder, messages, base) ==
    [k \in 1..Len(messages) |->
        [accountId |-> accountId, uid |-> base + k - 1, folder |-> normalizedFolder,
         messageId |-> <<"graph", messages[k].id>>, isRead |-> FALSE]]

\* the rows the Graph loop builds: uid = ++currentHighestUid per message
GraphRows(accountId, normalizedFolder, messages, base) ==
    [k \in 1..Len(messages) |->
        [accountId |-> accountId, uid |-> base + k, folder |-> normalizedFolder,
         messageId |-> <<"graph", messages[k].id>>, isRead |-> FALSE]]

\* globalMaxUid = await getGlobalHighestUid(accountId); then the loop over
\* messages: GraphEmailParserUtil.parseEmail has no catch of its own, so a
\* message it rejects ends the loop in the catch of the Graph block
GraphBuild(w) ==
    /\ pc[w] = "graph_build"
    /\ LET id   == loc[w].accountId
           base == Max({lastFetchedUidOr0(loc[w].account),
                        getGlobalHighestUid(emails, id)})
           msgs == loc[w].messages
       IN  IF \E k \in 1..Len(msgs) : msgs[k].bad
           THEN GraphCatch(w, "ParseError")
           ELSE /\ pc' = [pc EXCEPT ![w] = "graph_create"]
                /\ loc' = [loc EXCEPT
                      ![w].currentHighestUid = base + Len(msgs),
                      ![w].emailsToCreate =
                          GraphRows(id, loc[w].normalizedFolder, msgs, base)]
    /\ UNCHANGED << accounts, emails, nextId, imapBox, imapBad, graphMsgs,
                    upstream, issued, clock, job, hist, done, calls,
                    cache, email_fts, locks, call, refreshTokens >>

\* emailsSynced = await createMany(emailsToCreate)
GraphCreateMany(w) ==
    /\ pc[w] = "graph_create"
    /\ LET res == createMany(emails, nextId, loc[w].emailsToCreate)
       IN  /\ res.nextId <= MaxRows + 1
           /\ emails' = res.rows
           /\ nextId' = res.nextId
           /\ loc' = [loc EXCEPT ![w].totalSynced = res.count]
           /\ hist' = IF res.rows # emails THEN Disturb(hist, w) ELSE hist
           /\ done' = IF res.rows # emails THEN {} ELSE done
    /\ pc' = [pc EXCEPT ![w] = "graph_updateSyncState"]
    /\ UNCHANGED << accounts, imapBox, imapBad, graphMsgs, upstream, issued,
                    clock, job, calls,
                    cache, email_fts, locks, call, refreshTokens >>

\* await updateSyncState(accountId, currentHighestUid, new Date())
GraphUpdateSyncState(w) ==
    /\ pc[w] = "graph_updateSyncState"
    /\ accounts' = updateSyncState(accounts, loc[w].accountId,
                                   loc[w].currentHighestUid, clock)
    /\ loc' = [loc EXCEPT ![w].flagName = loc[w].normalizedFolder]
    /\ pc' = [pc EXCEPT ![w] = "flag_read"]
    /\ UNCHANGED << emails, nextId, imapBox, imapBad, graphMsgs, upstream,
                    issued, clock, job, hist, done, calls,
                    cache, email_fts, locks, call, refreshTokens >>

----------------------------------------------------------------------------
(* The environment *)

\* time passes
Tick ==
    /\ clock < MaxClock
    /\ clock' = clock + 1
    /\ UNCHANGED << accounts, emails, nextId, imapBox, imapBad, graphMsgs,
                    upstream, issued, pc, loc, job, hist, done, calls,
                    cache, email_fts, locks, call, refreshTokens >>

\* DELETE /emails/{id}: EmailsRepository.softDelete
SoftDelete(id) ==
    /\ \E r \in emails : r.id = id /\ r.deletedAt = NULL
    /\ Cardinality({ r \in emails : r.deletedAt # NULL }) < MaxTombstones
    /\ emails' = softDelete(emails, id, clock)
    /\ hist' = Disturb(hist, "api")
    /\ done' = {}
    /\ UNCHANGED << accounts, nextId, imapBox, imapBad, graphMsgs, upstream,
                    issued, clock, pc, loc, job, calls,
                    cache, email_fts, locks, call, refreshTokens >>

----------------------------------------------------------------------------
(* EmailsRepository, EmailsService and SearchService: the reading API *)

\* the user an Email row belongs to: the userId of its account row
OwnerOf(accts, r) == accts[r.accountId].userId

\* EmailsRepository.findById(id): findUnique({id, deletedAt: null}); the set
\* holds the row found, or nothing for null
findById(rows, id) == { r \in rows : r.id = id /\ r.deletedAt = NULL }

\* EmailsRepository.findMany(userId, filters): rows of the user's accounts
\* that are not soft-deleted and pass the optional accountId and isRead
\* filters ("any" when the filter is absent); every row fits on the page
findMany(rows, accts, userId, filters) ==
    { r \in rows :
        /\ OwnerOf(accts, r) = userId
        /\ r.deletedAt = NULL
        /\ filters.accountId \in {"any", r.accountId}
        /\ filters.isRead \in {"any", IF r.isRead THEN "true" ELSE "false"} }

\* SearchService.searchEmails(userId, query): the rows of the user's accounts
\* joined with email_fts whose search_vector matches the query, deletedAt
\* IS NULL; matching stands for the ids of the rows the query matches
searchEmails(rows, accts, userId, matching) ==
    { r \in rows : /\ OwnerOf(accts, r) = userId
                   /\ r.deletedAt = NULL
                   /\ r.id \in matching }

\* SearchService.searchBySender(userId, sender): where {account: {userId},
\* from: {contains: sender}}; matching stands for the ids of the rows whose
\* from contains the sender
searchBySender(rows, accts, userId, matching) ==
    { r \in rows : OwnerOf(accts, r) = userId /\ r.id \in matching }

\* EmailsService.findOne(userId, id): NotFoundException unless findById finds
\* the row, else the row
findOne(rows, userId, id) ==
    IF findById(rows, id) = {}
    THEN [error |-> "NotFound", data |-> {}]
    ELSE [error |-> "none", data |-> findById(rows, id)]

\* EmailsRepository.updateReadStatus(id, isRead)
updateReadStatus(rows, id, isRead) ==
    { IF r.id = id THEN [r EXCEPT !.isRead = isRead] ELSE r : r \in rows }

\* PATCH /emails/{id}/read-status: EmailsService.updateReadStatus(userId, id,
\* {isRead}): await findOne(userId, id), then the repository update
UpdateReadStatus(w, userId, id, isRead) ==
    /\ pc[w] = "idle"
    /\ LET found == findOne(emails, userId, id)
       IN  /\ loc' = [loc EXCEPT ![w] =
                 [IdleLoc EXCEPT !.caller = "updateReadStatus",
                                 !.dto = [userId |-> userId, email |-> <<>>,
                                          appPassword |-> "none"],
                                 !.i = id,
                                 !.error = found.error]]
           /\ emails' = IF found.error = "none"
                        THEN updateReadStatus(emails, id, isRead)
                        ELSE emails
    /\ UNCHANGED << accounts, nextId, imapBox, imapBad, graphMsgs, upstream,
                    issued, clock, pc, job, hist, done, calls,
                    cache, email_fts, locks, call, refreshTokens >>

----------------------------------------------------------------------------
(* AuthService: the state parameter of the Outlook OAuth link *)

\* generateOutlookState(userId): state = uuidv4(), a value never issued
\* before; cacheManager.set('outlook_state:' + state, userId, 600000)
GenerateOutlookState(userId) ==
    /\ calls < MaxCalls
    /\ calls' = calls + 1
    /\ cache' = cache \cup {[key |-> calls + 1, value |-> userId]}
    /\ UNCHANGED << accounts, emails, nextId, imapBox, imapBad, graphMsgs,
                    upstream, issued, clock, pc, loc, job, hist, done,
                    email_fts, locks, call, refreshTokens >>

\* the 10 minutes of the entry have passed: the store drops it
CacheExpire(key) ==
    /\ \E e \in cache : e.key = key
    /\ cache' = { e \in cache : e.key # key }
    /\ UNCHANGED << accounts, emails, nextId, imapBox, imapBad, graphMsgs,
                    upstream, issued, clock, pc, loc, job, calls, hist, done,
                    email_fts, locks, call, refreshTokens >>

\* verifyOutlookState(state), up to its first await: userId = await
\* cacheManager.get(key); UnauthorizedException when there is none
VerifyOutlookStateGet(w, state) ==
    /\ pc[w] = "idle"
    /\ LET found == { e \in cache : e.key = state }
       IN  IF found = {}
           THEN /\ pc' = [pc EXCEPT ![w] = "state_threw"]
                /\ loc' = [loc EXCEPT ![w] =
                      [IdleLoc EXCEPT !.caller = "verifyOutlookState", !.i = state,
                                      !.error = "Unauthorized"]]
           ELSE /\ pc' = [pc EXCEPT ![w] = "state_del"]
                /\ loc' = [loc EXCEPT ![w] =
                      [IdleLoc EXCEPT !.caller = "verifyOutlookState", !.i = state,
                                      !.dto = [userId |-> (CHOOSE e \in found : TRUE).value,
                                               email |-> <<>>, appPassword |-> "none"]]]
    /\ UNCHANGED << accounts, emails, nextId, imapBox, imapBad, graphMsgs,
                    upstream, issued, clock, job, calls, hist, done,
                    cache, email_fts, locks, call, refreshTokens >>

\* await cacheManager.del(key); return userId
VerifyOutlookStateDel(w) ==
    /\ pc[w] = "state_del"
    /\ cache' = { e \in cache : e.key # loc[w].i }
    /\ pc' = [pc EXCEPT ![w] = "state_returned"]
    /\ UNCHANGED << accounts, emails, nextId, imapBox, imapBad, graphMsgs,
                    upstream, issued, clock, loc, job, calls, hist, done,
                    email_fts, locks, call, refreshTokens >>

----------------------------------------------------------------------------
(* Queues and processors *)

\* a job slot that holds no job
NoJob == [state |-> "none", id |-> 0, type |-> "none", accountId |-> "none",
          email |-> <<>>, folders |-> <<>>, backlog |-> 0,
          attemptsMade |-> 0, worker |-> "none", i |-> 0, results |-> <<>>,
          invoked |-> <<>>, outcomes |-> <<>>, failedReason |-> "none",
          returnvalue |-> <<>>]

\* queue.add(SYNC_ACCOUNT, {accountId, email, folders}, {attempts: 3, backoff}):
\* the job as queued; invoked and outcomes are history of the current
\* attempt, backlog counts the jobs queued behind it for the same account
NewJob(id, type, accountId, email, folders) ==
    [NoJob EXCEPT !.state = "waiting", !.id = id, !.type = type,
                  !.accountId = accountId, !.email = email, !.folders = folders]

NextJobId == Max({ job[a].id : a \in AccountIds }) + 1

\* EmailAccountsRepository.findAllActive: findMany({orderBy: {lastSyncedAt:
\* 'asc'}}), every account row, never-synced accounts (NULL) last; rows with
\* equal lastSyncedAt come in an order the database picks
RECURSIVE orderByLastSyncedAt(_, _)
orderByLastSyncedAt(accts, ids) ==
    IF ids = {} THEN <<>>
    ELSE LET key(a) == IF accts[a].lastSyncedAt = NULL
                       THEN MaxClock + 2 ELSE accts[a].lastSyncedAt
             first  == CHOOSE a \in ids : \A b \in ids : key(a) <= key(b)
         IN  <<first>> \o orderByLastSyncedAt(accts, ids \ {first})

findAllActive(accts) ==
    orderByLastSyncedAt(accts, { a \in AccountIds : accts[a].exists })

\* the accounts of the list the scheduler queues a job for: folders.length > 0
RECURSIVE withFolders(_, _)
withFolders(accts, ids) ==
    IF ids = <<>> THEN <<>>
    ELSE IF Len(accts[Head(ids)].flags) = 0
         THEN withFolders(accts, Tail(ids))
         ELSE <<Head(ids)>> \o withFolders(accts, Tail(ids))

\* the scheduler loop without the `continue` for an empty flags list
scheduleIncrementalSyncNoSkip ==
    LET queued == findAllActive(accounts)
    IN  /\ \A a \in AccountIds : job[a].state \in {"none", "completed", "dead"}
        /\ Len(queued) > 0
        /\ NextJobId + Len(queued) - 1 <= MaxJobs
        /\ job' = [a \in AccountIds |->
                     IF \E k \in 1..Len(queued) : queued[k] = a
                     THEN NewJob(NextJobId - 1 + (CHOOSE k \in 1..Len(queued) : queued[k] = a),
                                 "incremental", a, accounts[a].email, accounts[a].flags)
                     ELSE job[a]]
        /\ UNCHANGED << accounts, emails, nextId, imapBox, imapBad, graphMsgs,
                        upstream, issued, clock, pc, loc, hist, done, calls,
                    cache, email_fts, locks, call, refreshTokens >>

\* SyncScheduler.scheduleIncrementalSync: for every account of findAllActive
\* with a non-empty flags list, in that order, queue an incremental-sync job
\* {accountId, email, folders}.  The slot of an account holds one job: the
\* tick is taken when no job is queued or running.
scheduleIncrementalSync ==
    LET queued == withFolders(accounts, findAllActive(accounts))
    IN  /\ \A a \in AccountIds : job[a].state \in {"none", "completed", "dead"}
        /\ Len(queued) > 0
        /\ NextJobId + Len(queued) - 1 <= MaxJobs
        /\ job' = [a \in AccountIds |->
                     IF \E k \in 1..Len(queued) : queued[k] = a
                     THEN NewJob(NextJobId - 1 + (CHOOSE k \in 1..Len(queued) : queued[k] = a),
                                 "incremental", a, accounts[a].email, accounts[a].flags)
                     ELSE job[a]]
        /\ UNCHANGED << accounts, emails, nextId, imapBox, imapBad, graphMsgs,
                        upstream, issued, clock, pc, loc, hist, done, calls,
                    cache, email_fts, locks, call, refreshTokens >>

\* a worker takes a waiting job and enters process(job); the incremental
\* processor first looks the account up (accounts are never removed here)
ProcessStart(w, a) ==
    /\ pc[w] = "idle"
    /\ job[a].state = "waiting"
    /\ job' = [job EXCEPT ![a].state = "active", ![a].worker = w, ![a].i = 0,
                          ![a].results = <<>>, ![a].invoked = <<>>,
                          ![a].outcomes = <<>>]
    /\ pc' = [pc EXCEPT ![w] = IF job[a].type = "initial"
                               THEN "job_discover" ELSE "job_loop"]
    /\ UNCHANGED << accounts, emails, nextId, imapBox, imapBad, graphMsgs,
                    upstream, issued, clock, loc, hist, done, calls,
                    cache, email_fts, locks, call, refreshTokens >>

\* process(job) threw: the queue counts the attempt and either queues the job
\* again (attempts left) or moves it to the failed set for good
ProcessThrows(w, a, err) ==
    /\ job' = [job EXCEPT
          ![a].attemptsMade = @ + 1,
          ![a].failedReason = err,
          ![a].state = IF job[a].attemptsMade + 1 < JobAttempts
                       THEN "waiting" ELSE "dead"]
    /\ pc' = [pc EXCEPT ![w] = "idle"]

\* the job the worker is running
JobOf(w) == CHOOSE a \in AccountIds : job[a].state = "active" /\ job[a].worker = w

HasJob(w) == \E a \in AccountIds : job[a].state = "active" /\ job[a].worker = w

\* SyncService.discoverFolders on the IMAP path: connect, listFolders, keep
\* the paths shouldSyncFolder accepts, sortFoldersByPriority
RECURSIVE filterShouldSync(_)
filterShouldSync(paths) ==
    IF paths = <<>> THEN <<>>
    ELSE IF shouldSyncFolder(Head(paths))
         THEN <<Head(paths)>> \o filterShouldSync(Tail(paths))
         ELSE filterShouldSync(Tail(paths))

\* InitialSyncProcessor.process, step 1: folders = await discoverFolders(accountId);
\* a throw leaves process through its outer catch.  Jobs run on accounts
\* without a refresh token, so discovery takes the IMAP path.
JobDiscover(w) ==
    /\ pc[w] = "job_discover"
    /\ HasJob(w)
    /\ LET a   == JobOf(w)
           acc == accounts[a]
       IN  /\ acc.refreshToken = NULL
           /\ IF ~ acc.password
              THEN ProcessThrows(w, a, "NoCredentials")
              ELSE IF ~ getConfigFromEmail(acc.email)
              THEN ProcessThrows(w, a, "NoImapConfig")
              ELSE IF upstream["imapd"] # "ok"
              THEN ProcessThrows(w, a, UpstreamError("imapd"))
              ELSE /\ job' = [job EXCEPT ![a].folders =
                                sortFoldersByPriority(filterShouldSync(ImapFolders))]
                   /\ pc' = [pc EXCEPT ![w] = "job_loop"]
    /\ UNCHANGED << accounts, emails, nextId, imapBox, imapBad, graphMsgs,
                    upstream, issued, clock, loc, hist, done, calls,
                    cache, email_fts, locks, call, refreshTokens >>

\* SyncService.discoverFolders on the Graph path (account.refreshToken set):
\* refreshMicrosoftToken, store the new pair, listFolders, keep the display
\* names shouldSyncFolder accepts, sortFoldersByPriority.  A throw reaches the
\* catch, which rethrows for an account without a password.
JobDiscoverGraph(w) ==
    /\ pc[w] = "job_discover"
    /\ HasJob(w)
    /\ LET a     == JobOf(w)
           acc   == accounts[a]
           names == [k \in 1..Len(GraphFolders) |-> GraphFolders[k].displayName]
       IN  /\ acc.refreshToken # NULL
           /\ ~ acc.password
           /\ IF upstream["msgraph"] # "ok"
              THEN /\ ProcessThrows(w, a, UpstreamError("msgraph"))
                   /\ UNCHANGED << accounts, issued >>
              ELSE /\ issued < MaxTokens
                   /\ issued' = issued + 1
                   /\ accounts' = [accounts EXCEPT ![a].accessToken = issued + 1,
                                                   ![a].refreshToken = issued + 1]
                   /\ job' = [job EXCEPT ![a].folders =
                                sortFoldersByPriority(filterShouldSync(names))]
                   /\ pc' = [pc EXCEPT ![w] = "job_loop"]
    /\ UNCHANGED << emails, nextId, imapBox, imapBad, graphMsgs,
                    upstream, clock, loc, hist, done, calls,
                    cache, email_fts, locks, call, refreshTokens >>

\* loop head of process: call syncFolder for the next folder, or return the
\* job result when the folders are exhausted
JobLoop(w) ==
    /\ pc[w] = "job_loop"
    /\ HasJob(w)
    /\ LET a == JobOf(w)
           j == job[a]
       IN  IF j.i < Len(j.folders)
           THEN /\ EnterSyncFolder(w, a, j.folders[j.i + 1],
                                   IF j.type = "initial"
                                   THEN INITIAL_SYNC_CHUNK_SIZE ELSE CHUNK_SIZE,
                                   "job")
                /\ job' = [job EXCEPT ![a].invoked = Append(@, j.folders[j.i + 1])]
           ELSE /\ job' = [job EXCEPT ![a].state = "completed",
                                      ![a].returnvalue = j.results]
                /\ pc' = [pc EXCEPT ![w] = "idle"]
                /\ UNCHANGED << loc, hist >>
    /\ UNCHANGED << accounts, emails, nextId, imapBox, imapBad, graphMsgs,
                    upstream, issued, clock, done, calls,
                    cache, email_fts, locks, call, refreshTokens >>

\* the inner catch of the folder loop rethrowing what syncFolder threw
JobFolderDoneRethrow(w) ==
    /\ pc[w] \in {"returned", "threw"}
    /\ loc[w].caller = "job"
    /\ HasJob(w)
    /\ LET a == JobOf(w)
       IN  IF pc[w] = "returned"
           THEN /\ job' = [job EXCEPT ![a].results = Append(@, loc[w].result),
                                      ![a].outcomes = Append(@, "ok"),
                                      ![a].i = @ + 1]
                /\ pc' = [pc EXCEPT ![w] = "job_loop"]
           ELSE /\ ProcessThrows(w, a, loc[w].error)
    /\ UNCHANGED << accounts, emails, nextId, imapBox, imapBad, graphMsgs,
                    upstream, issued, clock, loc, hist, done, calls,
                    cache, email_fts, locks, call, refreshTokens >>

\* syncFolder came back to the folder loop: results.push(result), or the
\* inner catch logs the error; either way the loop goes on to the next folder
JobFolderDone(w) ==
    /\ pc[w] \in {"returned", "threw"}
    /\ loc[w].caller = "job"
    /\ HasJob(w)
    /\ LET a == JobOf(w)
       IN  IF pc[w] = "returned"
           THEN job' = [job EXCEPT ![a].results = Append(@, loc[w].result),
                                   ![a].outcomes = Append(@, "ok"),
                                   ![a].i = @ + 1]
           ELSE job' = [job EXCEPT ![a].outcomes = Append(@, loc[w].error),
                                   ![a].i = @ + 1]
    /\ pc' = [pc EXCEPT ![w] = "job_loop"]
    /\ UNCHANGED << accounts, emails, nextId, imapBox, imapBad, graphMsgs,
                    upstream, issued, clock, loc, hist, done, calls,
                    cache, email_fts, locks, call, refreshTokens >>

\* the provider goes down, starts rejecting the credentials, or recovers
UpstreamChange(svc, status) ==
    /\ upstream[svc] # status
    /\ upstream' = [upstream EXCEPT ![svc] = status]
    /\ UNCHANGED << accounts, emails, nextId, imapBox, imapBad, graphMsgs,
                    issued, clock, pc, loc, job, hist, done, calls,
                    cache, email_fts, locks, call, refreshTokens >>

----------------------------------------------------------------------------
(* EmailAccountsService: linking an account *)

\* the users and the addresses they try to link; the second address has a
\* domain no provider is known for
UserIds == {"u1", "u2"}
OnboardEmails == {e_imap, <<"b","o","b","@","x",".","i","o">>}

\* EmailAccountsRepository.exists(userId, email): count({userId, email}) > 0
exists(accts, userId, email) ==
    \E a \in AccountIds :
       accts[a].exists /\ accts[a].userId = userId /\ accts[a].email = email

\* EmailAccountsRepository.findByUserAndEmail; "none" stands for null
findByUserAndEmail(accts, userId, email) ==
    IF exists(accts, userId, email)
    THEN CHOOSE a \in AccountIds :
            accts[a].exists /\ accts[a].userId = userId /\ accts[a].email = email
    ELSE "none"

\* ImapValidatorUtil.validateConnection(email, password): no IMAP config for
\* the address, or ImapClientUtil.testConnection, a live connect and logout
validateConnection(email, password, imapd) ==
    IF ~ getConfigFromEmail(email)
    THEN [success |-> FALSE, error |-> "UnknownProvider"]
    ELSE IF imapd # "ok" \/ password # "good"
    THEN [success |-> FALSE, error |-> "ConnectionFailed"]
    ELSE [success |-> TRUE, error |-> "none"]

\* the id of the row an insert makes
NewAccountId(accts) == CHOOSE a \in AccountIds : ~ accts[a].exists

\* the row EmailAccountsRepository.create stores: flags [], nothing synced
NewAccountRow(userId, email, password, accessToken, refreshToken) ==
    [NoAccount EXCEPT !.exists = TRUE, !.userId = userId, !.email = email,
                      !.password = password, !.accessToken = accessToken,
                      !.refreshToken = refreshToken]

\* prisma.emailAccount.create on a table without the (userId, email) index
emailAccountCreateNoIndex(accts, row) ==
    [ok |-> TRUE, id |-> NewAccountId(accts),
     accounts |-> [accts EXCEPT ![NewAccountId(accts)] = row]]

\* prisma.emailAccount.create: the unique index EmailAccount_userId_email_key
\* refuses a second row of the same (userId, email)
emailAccountCreate(accts, row) ==
    IF exists(accts, row.userId, row.email)
    THEN [ok |-> FALSE, id |-> "none", accounts |-> accts]
    ELSE [ok |-> TRUE, id |-> NewAccountId(accts),
          accounts |-> [accts EXCEPT ![NewAccountId(accts)] = row]]

\* a request enters the service
EnterOnboard(w, op, userId, email, appPassword) ==
    /\ pc[w] = "idle"
    /\ calls < MaxCalls
    /\ calls' = calls + 1
    /\ loc' = [loc EXCEPT ![w] =
          [IdleLoc EXCEPT !.caller = op,
                          !.dto = [userId |-> userId, email |-> email,
                                   appPassword |-> appPassword],
                          !.linkedAtCall = exists(accounts, userId, email)]]

OnboardThrows(w, err) ==
    /\ pc' = [pc EXCEPT ![w] = "onboard_threw"]
    /\ loc' = [loc EXCEPT ![w].error = err]

\* POST /email-accounts: EmailAccountsService.create(userId, {email, appPassword})
CallCreate(w, userId, email, appPassword) ==
    /\ EnterOnboard(w, "create", userId, email, appPassword)
    /\ pc' = [pc EXCEPT ![w] = "create_exists"]
    /\ UNCHANGED << accounts, emails, nextId, imapBox, imapBad, graphMsgs,
                    upstream, issued, clock, job, hist, done,
                    cache, email_fts, locks, call, refreshTokens >>

\* exists = await repository.exists(userId, email); ConflictException if so
CreateExists(w) ==
    /\ pc[w] = "create_exists"
    /\ IF exists(accounts, loc[w].dto.userId, loc[w].dto.email)
       THEN /\ pc' = [pc EXCEPT ![w] = "onboard_threw"]
            /\ loc' = [loc EXCEPT ![w].exists = TRUE, ![w].error = "Conflict"]
       ELSE /\ pc' = [pc EXCEPT ![w] = "create_validate"]
            /\ UNCHANGED loc
    /\ UNCHANGED << accounts, emails, nextId, imapBox, imapBad, graphMsgs,
                    upstream, issued, clock, job, hist, done, calls,
                    cache, email_fts, locks, call, refreshTokens >>

\* create going on to the insert whatever the validation said
CreateValidateNoThrow(w) ==
    /\ pc[w] = "create_validate"
    /\ LET validation == validateConnection(loc[w].dto.email, loc[w].dto.appPassword,
                                            upstream["imapd"])
       IN  /\ pc' = [pc EXCEPT ![w] = "create_insert"]
           /\ loc' = [loc EXCEPT ![w].validation =
                         IF validation.success THEN "ok" ELSE "failed"]
    /\ UNCHANGED << accounts, emails, nextId, imapBox, imapBad, graphMsgs,
                    upstream, issued, clock, job, hist, done, calls,
                    cache, email_fts, locks, call, refreshTokens >>

\* validation = await validateConnection(email, appPassword);
\* BadRequestException(validation.error) unless validation.success
CreateValidate(w) ==
    /\ pc[w] = "create_validate"
    /\ LET validation == validateConnection(loc[w].dto.email, loc[w].dto.appPassword,
                                            upstream["imapd"])
       IN  IF ~ validation.success
           THEN /\ pc' = [pc EXCEPT ![w] = "onboard_threw"]
                /\ loc' = [loc EXCEPT ![w].validation = "failed",
                                      ![w].error = "BadRequest"]
           ELSE /\ pc' = [pc EXCEPT ![w] = "create_insert"]
                /\ loc' = [loc EXCEPT ![w].validation = "ok"]
    /\ UNCHANGED << accounts, emails, nextId, imapBox, imapBad, graphMsgs,
                    upstream, issued, clock, job, hist, done, calls,
                    cache, email_fts, locks, call, refreshTokens >>

\* account = await repository.create({user, email, password: encrypted,
\* provider, flags: []}); the error of a refused insert leaves create
CreateInsert(w) ==
    /\ pc[w] = "create_insert"
    /\ \E a \in AccountIds : ~ accounts[a].exists
    /\ LET res == emailAccountCreate(accounts,
                     NewAccountRow(loc[w].dto.userId, loc[w].dto.email, TRUE, NULL, NULL))
       IN  IF ~ res.ok
           THEN /\ OnboardThrows(w, "UniqueConstraint")
                /\ UNCHANGED accounts
           ELSE /\ accounts' = res.accounts
                /\ loc' = [loc EXCEPT ![w].accountId = res.id, ![w].persisted = res.id]
                /\ pc' = [pc EXCEPT ![w] = "onboard_queue"]
    /\ UNCHANGED << emails, nextId, imapBox, imapBad, graphMsgs,
                    upstream, issued, clock, job, hist, done, calls,
                    cache, email_fts, locks, call, refreshTokens >>

\* await initialSyncQueue.add(SYNC_ACCOUNT, {accountId, email}, {attempts: 3});
\* return the account
OnboardQueueAdd(w) ==
    /\ pc[w] = "onboard_queue"
    /\ LET a == loc[w].accountId
       IN  /\ IF job[a].state = "none"
              THEN /\ NextJobId <= MaxJobs
                   /\ job' = [job EXCEPT ![a] =
                         NewJob(NextJobId, "initial", a, accounts[a].email, <<>>)]
              ELSE /\ job[a].backlog < MaxJobs
                   /\ job' = [job EXCEPT ![a].backlog = @ + 1]
           /\ loc' = [loc EXCEPT ![w].queued =
                         Append(@, [accountId |-> a, email |-> accounts[a].email])]
    /\ pc' = [pc EXCEPT ![w] = "onboard_returned"]
    /\ UNCHANGED << accounts, emails, nextId, imapBox, imapBad, graphMsgs,
                    upstream, issued, clock, hist, done, calls,
                    cache, email_fts, locks, call, refreshTokens >>

\* the OAuth callback: EmailAccountsService.createWithOAuth(userId, email,
\* accessToken, refreshToken) with a token pair Microsoft has just issued
CallCreateWithOAuth(w, userId, email) ==
    /\ EnterOnboard(w, "createWithOAuth", userId, email, "none")
    /\ issued < MaxTokens
    /\ issued' = issued + 1
    /\ pc' = [pc EXCEPT ![w] = "oauth_exists"]
    /\ UNCHANGED << accounts, emails, nextId, imapBox, imapBad, graphMsgs,
                    upstream, clock, job, hist, done,
                    cache, email_fts, locks, call, refreshTokens >>

\* exists = await repository.exists(userId, email)
OAuthExists(w) ==
    /\ pc[w] = "oauth_exists"
    /\ LET e == exists(accounts, loc[w].dto.userId, loc[w].dto.email)
       IN  /\ loc' = [loc EXCEPT ![w].exists = e,
                                 ![w].tokens = [accessToken |-> issued,
                                                refreshToken |-> issued]]
           /\ pc' = [pc EXCEPT ![w] = IF e THEN "oauth_find" ELSE "oauth_insert"]
    /\ UNCHANGED << accounts, emails, nextId, imapBox, imapBad, graphMsgs,
                    upstream, issued, clock, job, hist, done, calls,
                    cache, email_fts, locks, call, refreshTokens >>

\* account = await repository.findByUserAndEmail(userId, email); if found,
\* await repository.update(account.id, {accessToken, refreshToken})
OAuthUpdateTokens(w) ==
    /\ pc[w] = "oauth_find"
    /\ LET a == findByUserAndEmail(accounts, loc[w].dto.userId, loc[w].dto.email)
       IN  IF a = "none"
           THEN /\ pc' = [pc EXCEPT ![w] = "oauth_insert"]
                /\ UNCHANGED << accounts, loc >>
           ELSE /\ accounts' = [accounts EXCEPT
                      ![a].accessToken = loc[w].tokens.accessToken,
                      ![a].refreshToken = loc[w].tokens.refreshToken]
                /\ loc' = [loc EXCEPT ![w].accountId = a]
                /\ pc' = [pc EXCEPT ![w] = "onboard_queue"]
    /\ UNCHANGED << emails, nextId, imapBox, imapBad, graphMsgs,
                    upstream, issued, clock, job, hist, done, calls,
                    cache, email_fts, locks, call, refreshTokens >>

\* account = await repository.create({user, email, accessToken, refreshToken,
\* provider: 'outlook', flags: []})
OAuthInsert(w) ==
    /\ pc[w] = "oauth_insert"
    /\ \E a \in AccountIds : ~ accounts[a].exists
    /\ LET res == emailAccountCreate(accounts,
                     NewAccountRow(loc[w].dto.userId, loc[w].dto.email, FALSE,
                                   loc[w].tokens.accessToken, loc[w].tokens.refreshToken))
       IN  IF ~ res.ok
           THEN /\ OnboardThrows(w, "UniqueConstraint")
                /\ UNCHANGED accounts
           ELSE /\ accounts' = res.accounts
                /\ loc' = [loc EXCEPT ![w].accountId = res.id, ![w].persisted = res.id]
                /\ pc' = [pc EXCEPT ![w] = "onboard_queue"]
    /\ UNCHANGED << emails, nextId, imapBox, imapBad, graphMsgs,
                    upstream, issued, clock, job, hist, done, calls,
                    cache, email_fts, locks, call, refreshTokens >>

\* PATCH /email-accounts/{id}: EmailAccountsService.update(userId, id,
\* {appPassword}); NotFoundException for no row or another user's row, else
\* validate the new password and store it
CallUpdate(w, userId, id, appPassword) ==
    /\ pc[w] = "idle"
    /\ calls < MaxCalls
    /\ calls' = calls + 1
    /\ loc' = [loc EXCEPT ![w] =
          [IdleLoc EXCEPT !.caller = "update", !.accountId = id,
                          !.dto = [userId |-> userId, email |-> <<>>,
                                   appPassword |-> appPassword]]]
    /\ pc' = [pc EXCEPT ![w] = "update_find"]
    /\ UNCHANGED << accounts, emails, nextId, imapBox, imapBad, graphMsgs,
                    upstream, issued, clock, job, hist, done,
                    cache, email_fts, locks, call, refreshTokens >>

\* account = await repository.findById(id) and the ownership test
UpdateFind(w) ==
    /\ pc[w] = "update_find"
    /\ LET account == accounts[loc[w].accountId]
       IN  IF ~ account.exists \/ account.userId # loc[w].dto.userId
           THEN OnboardThrows(w, "NotFound")
           ELSE /\ loc' = [loc EXCEPT ![w].account = account,
                                      ![w].dto.email = account.email]
                /\ pc' = [pc EXCEPT ![w] = "update_validate"]
    /\ UNCHANGED << accounts, emails, nextId, imapBox, imapBad, graphMsgs,
                    upstream, issued, clock, job, hist, done, calls,
                    cache, email_fts, locks, call, refreshTokens >>

\* validation = await validateConnection(account.email, appPassword)
UpdateValidate(w) ==
    /\ pc[w] = "update_validate"
    /\ LET validation == validateConnection(loc[w].account.email, loc[w].dto.appPassword,
                                            upstream["imapd"])
       IN  IF ~ validation.success
           THEN /\ pc' = [pc EXCEPT ![w] = "onboard_threw"]
                /\ loc' = [loc EXCEPT ![w].validation = "failed",
                                      ![w].error = "BadRequest"]
           ELSE /\ pc' = [pc EXCEPT ![w] = "update_write"]
                /\ loc' = [loc EXCEPT ![w].validation = "ok"]
    /\ UNCHANGED << accounts, emails, nextId, imapBox, imapBad, graphMsgs,
                    upstream, issued, clock, job, hist, done, calls,
                    cache, email_fts, locks, call, refreshTokens >>

\* updated = await repository.update(id, {password: encryptedPassword})
UpdateWrite(w) ==
    /\ pc[w] = "update_write"
    /\ accounts' = [accounts EXCEPT ![loc[w].accountId].password = TRUE]
    /\ pc' = [pc EXCEPT ![w] = "onboard_returned"]
    /\ UNCHANGED << emails, nextId, imapBox, imapBad, graphMsgs,
                    upstream, issued, clock, job, loc, hist, done, calls,
                    cache, email_fts, locks, call, refreshTokens >>

----------------------------------------------------------------------------
(* Initial states *)


InitAccounts ==
    accounts \in
      { [id \in AccountIds |->
            IF id = "imap"
            THEN [exists |-> TRUE, userId |-> "u1",
                  email |-> emailOf(id), password |-> TRUE, refreshToken |-> NULL,
                  accessToken |-> NULL, lastFetchedUid |-> NULL,
                  lastSyncedAt |-> NULL, flags |-> <<>>]
            ELSE [exists |-> TRUE, userId |-> "u1",
                  email |-> emailOf(id), password |-> pw, refreshToken |-> 1,
                  accessToken |-> 1, lastFetchedUid |-> NULL,
                  lastSyncedAt |-> NULL, flags |-> <<>>]] : pw \in BOOLEAN }

InitCommon ==
    /\ InitAccounts
    /\ emails = {}
    /\ nextId = 1
    /\ issued = 1
    /\ clock = 1
    /\ calls = 0
    /\ InitStores
    /\ pc = [w \in Workers |-> "idle"]
    /\ loc = [w \in Workers |-> IdleLoc]
    /\ job = [id \in AccountIds |-> NoJob]
    /\ hist = [w \in Workers |-> IdleHist]
    /\ done = {}

\* mailboxes: every raw folder holds some of the UIDs 1..MaxUid
Boxes == [ImapFolderSet -> SUBSET (1..MaxUid)]

\* mailboxes of the concurrent specification: Sent holds every UID, Sent
\* Items (same canonical name) the lowest or the highest one
ImapWorlds ==
    { b \in Boxes : /\ b[s_INBOX] = {1}
                    /\ b[s_Sent] = 1..MaxUid
                    /\ b[s_SentItems] \in {{1}, {MaxUid}} }

InitWorld(worlds) ==
    /\ InitCommon
    /\ accounts["graph"].password = FALSE
    /\ \E b \in worlds : imapBox = [id \in AccountIds |-> b]
    /\ imapBad \in SUBSET { <<"imap", s_Sent, MaxUid>> }
    /\ graphMsgs = {}
    /\ upstream = [svc \in Services |-> "ok"]

Init == InitWorld(ImapWorlds)

\* the steps of syncFolder on the IMAP path
ImapSteps(w) ==
    \/ FindById(w)
    \/ ImapConnect(w)
    \/ ImapGetHighestUid(w)
    \/ ImapSearch(w)
    \/ ImapFetchChunk(w)
    \/ ImapFilterChunk(w)
    \/ ImapCreateMany(w)
    \/ ImapUpdateSyncState(w)
    \/ AddFolderFlagRead(w)
    \/ AddFolderFlagWrite(w)

\* the steps of syncFolder on the Graph path
GraphSteps(w) ==
    \/ GraphRefresh(w)
    \/ GraphUpdateTokens(w)
    \/ GraphListFolders(w)
    \/ GraphFetch(w)
    \/ GraphBuild(w)
    \/ GraphCreateMany(w)
    \/ GraphUpdateSyncState(w)

\* two workers, one syncFolder call each on the password account; w1 is the
\* worker that calls first
Next ==
    \/ \E f \in ImapFolderSet, c \in 1..MaxChunk : CallSyncFolder("w1", "imap", f, c)
    \/ \E f \in ImapFolderSet, c \in 1..MaxChunk :
          pc["w1"] # "idle" /\ CallSyncFolder("w2", "imap", f, c)
    \/ \E w \in Workers : ImapSteps(w)
    \/ \E id \in 1..MaxRows : SoftDelete(id)

Spec == Init /\ [][Next]_vars

\* mailboxes of the sequential specification
SeqWorlds ==
    { b \in Boxes : b[s_INBOX] = {1} /\ b[s_Sent] # {} }

InitSeq == InitWorld(SeqWorlds)

\* one caller, one syncFolder call after the other on the password account
NextSeq ==
    \/ \E f \in ImapFolderSet, c \in 1..MaxChunk : CallSyncFolder("w1", "imap", f, c)
    \/ \E f \in ImapFolderSet, c \in 1..MaxChunk : CallAgain("w1", "imap", f, c)
    \/ ImapSteps("w1")
    \/ \E id \in 1..MaxRows : SoftDelete(id)

SpecSeq == InitSeq /\ [][NextSeq]_vars

\* one caller, one syncFolder call after the other, while the IMAP server
\* goes away and comes back; the mailbox itself does not change
NextRetry ==
    \/ \E f \in ImapFolderSet, c \in 1..MaxChunk : CallSyncFolder("w1", "imap", f, c)
    \/ \E f \in ImapFolderSet, c \in 1..MaxChunk : CallAgain("w1", "imap", f, c)
    \/ ImapSteps("w1")
    \/ \E status \in {"ok", "down"} : UpstreamChange("imapd", status)

SpecRetry == InitSeq /\ [][NextRetry]_vars

\* Graph mailboxes: message 1 lies in Sent Items; message 2 lies in either
\* folder, arrives at any time and may be one parseEmail throws for
GraphWorlds ==
    { { [id |-> 1, folderId |-> "f2", receivedDateTime |-> 1, bad |-> FALSE],
        [id |-> 2, folderId |-> fid, receivedDateTime |-> t, bad |-> b] } :
        fid \in {"f1", "f2"}, t \in 1..MaxClock, b \in BOOLEAN }

\* the IMAP face of the token account's mailbox
GraphImapBox ==
    [f \in ImapFolderSet |-> IF f = s_Sent THEN {} ELSE {1}]

InitGraph ==
    /\ InitCommon
    /\ imapBox = [id \in AccountIds |-> GraphImapBox]
    /\ imapBad = {}
    /\ graphMsgs \in GraphWorlds
    /\ upstream = [svc \in Services |-> "ok"]

\* two workers, one syncFolder call each on the token account (with or
\* without a password next to the tokens); w1 is the worker that calls first
NextGraph ==
    \/ \E f \in GraphFolderNames : CallSyncFolder("w1", "graph", f, MaxChunk)
    \/ \E f \in GraphFolderNames :
          pc["w1"] # "idle" /\ CallSyncFolder("w2", "graph", f, MaxChunk)
    \/ \E w \in Workers : GraphSteps(w)
    \/ \E w \in Workers : ImapSteps(w)
    \/ Tick

SpecGraph == InitGraph /\ [][NextGraph]_vars

\* the mailbox of the job specification
JobBox ==
    [f \in ImapFolderSet |-> IF f = s_Sent THEN 1..MaxUid ELSE {1}]

\* the password account has just been onboarded: its row is stored and its
\* initial-sync job is queued (EmailAccountsService.create)
InitJobs ==
    /\ InitAccounts
    /\ accounts["graph"].password = FALSE
    /\ emails = {}
    /\ nextId = 1
    /\ issued = 1
    /\ clock = 1
    /\ calls = 0
    /\ InitStores
    /\ pc = [w \in Workers |-> "idle"]
    /\ loc = [w \in Workers |-> IdleLoc]
    /\ hist = [w \in Workers |-> IdleHist]
    /\ done = {}
    /\ job = [id \in AccountIds |-> IF id = "imap"
                                     THEN NewJob(1, "initial", id, emailOf(id), <<>>)
                                     ELSE NoJob]
    /\ imapBox = [id \in AccountIds |-> JobBox]
    /\ imapBad = {}
    /\ graphMsgs = {}
    /\ upstream \in [Services -> {"ok", "down", "rejected"}]
    /\ upstream["msgraph"] = "ok"

\* one worker runs the queued jobs; the IMAP server may fail and recover at
\* any time
NextJobs ==
    \/ \E a \in AccountIds : ProcessStart("w1", a)
    \/ JobDiscover("w1")
    \/ JobLoop("w1")
    \/ JobFolderDone("w1")
    \/ ImapSteps("w1")
    \/ scheduleIncrementalSync
    \/ \E status \in {"ok", "down", "rejected"} : UpstreamChange("imapd", status)

SpecJobs == InitJobs /\ [][NextJobs]_vars

\* Graph mailboxes of the job specification: one message in each folder, all
\* received before the job is queued, none that parseEmail throws for
GraphJobWorlds ==
    { { [id |-> 1, folderId |-> "f2", receivedDateTime |-> 1, bad |-> FALSE],
        [id |-> 2, folderId |-> fid, receivedDateTime |-> 1, bad |-> FALSE] } :
        fid \in {"f1", "f2"} }

\* the token account has just been onboarded: its row is stored and its
\* initial-sync job is queued (EmailAccountsService.createWithOAuth)
InitGraphJobs ==
    /\ InitAccounts
    /\ accounts["graph"].password = FALSE
    /\ emails = {}
    /\ nextId = 1
    /\ issued = 1
    /\ clock = 1
    /\ calls = 0
    /\ InitStores
    /\ pc = [w \in Workers |-> "idle"]
    /\ loc = [w \in Workers |-> IdleLoc]
    /\ hist = [w \in Workers |-> IdleHist]
    /\ done = {}
    /\ job = [id \in AccountIds |-> IF id = "graph"
                                     THEN NewJob(1, "initial", id, emailOf(id), <<>>)
                                     ELSE NoJob]
    /\ imapBox = [id \in AccountIds |-> GraphImapBox]
    /\ imapBad = {}
    /\ graphMsgs \in GraphJobWorlds
    /\ upstream \in [Services -> {"ok", "down"}]
    /\ upstream["imapd"] = "ok"

\* one worker runs the initial-sync job of the token account while time
\* passes; Microsoft Graph may fail and recover at any time
NextGraphJobs ==
    \/ ProcessStart("w1", "graph")
    \/ JobDiscoverGraph("w1")
    \/ JobLoop("w1")
    \/ JobFolderDone("w1")
    \/ FindById("w1")
    \/ GraphSteps("w1")
    \/ AddFolderFlagRead("w1")
    \/ AddFolderFlagWrite("w1")
    \/ Tick
    \/ \E status \in {"ok", "down"} : UpstreamChange("msgraph", status)

SpecGraphJobs == InitGraphJobs /\ [][NextGraphJobs]_vars

\* no account is linked yet; the IMAP server is up, down or rejecting
InitOnboard ==
    /\ accounts = [id \in AccountIds |-> NoAccount]
    /\ emails = {}
    /\ nextId = 1
    /\ issued = 1
    /\ clock = 1
    /\ calls = 0
    /\ InitStores
    /\ pc = [w \in Workers |-> "idle"]
    /\ loc = [w \in Workers |-> IdleLoc]
    /\ hist = [w \in Workers |-> IdleHist]
    /\ done = {}
    /\ job = [id \in AccountIds |-> NoJob]
    /\ imapBox = [id \in AccountIds |-> JobBox]
    /\ imapBad = {}
    /\ graphMsgs = {}
    /\ upstream \in [Services -> {"ok", "down", "rejected"}]
    /\ upstream["msgraph"] = "ok"

\* two requests, one after the other or at the same time, link or update
\* accounts
NextOnboard ==
    \/ \E w \in Workers, u \in UserIds, e \in OnboardEmails, p \in {"good", "bad"} :
          CallCreate(w, u, e, p)
    \/ \E w \in Workers, u \in UserIds : CallCreateWithOAuth(w, u, e_imap)
    \/ \E w \in Workers, u \in UserIds, id \in AccountIds, p \in {"good", "bad"} :
          CallUpdate(w, u, id, p)
    \/ \E w \in Workers :
          \/ CreateExists(w)
          \/ CreateValidate(w)
          \/ CreateInsert(w)
          \/ OAuthExists(w)
          \/ OAuthUpdateTokens(w)
          \/ OAuthInsert(w)
          \/ OnboardQueueAdd(w)
          \/ UpdateFind(w)
          \/ UpdateValidate(w)
          \/ UpdateWrite(w)

SpecOnboard == InitOnboard /\ [][NextOnboard]_vars

\* the two workers of SpecGraph, the clock standing still, while the owner of
\* the account marks messages read and deletes them through the API
NextFrame ==
    \/ \E f \in GraphFolderNames : CallSyncFolder("w1", "graph", f, MaxChunk)
    \/ \E f \in GraphFolderNames :
          pc["w1"] # "idle" /\ CallSyncFolder("w2", "graph", f, MaxChunk)
    \/ \E w \in Workers : GraphSteps(w)
    \/ \E w \in Workers : ImapSteps(w)
    \/ \E id \in 1..MaxRows : SoftDelete(id)
    \/ \E id \in 1..MaxRows : UpdateReadStatus("w2", "u1", id, TRUE)

SpecFrame == InitGraph /\ [][NextFrame]_vars

\* the mirror after both accounts were synced: user u1 owns the password
\* account, user u2 the token account
InitApi ==
    /\ accounts = [a \in AccountIds |->
                     IF a = "imap"
                     THEN NewAccountRow("u1", emailOf(a), TRUE, NULL, NULL)
                     ELSE NewAccountRow("u2", emailOf(a), FALSE, 1, 1)]
    /\ emails = createMany({}, 1,
                    << ImapRow("imap", 1, s_INBOX, STANDARD_FOLDERS_INBOX),
                       ImapRow("imap", 1, s_Sent, STANDARD_FOLDERS_SENT),
                       GraphRows("graph", STANDARD_FOLDERS_INBOX, <<[id |-> 1]>>, 0)[1] >>).rows
    /\ nextId = 4
    /\ issued = 1
    /\ clock = 1
    /\ calls = 0
    /\ InitStores
    /\ pc = [w \in Workers |-> "idle"]
    /\ loc = [w \in Workers |-> IdleLoc]
    /\ hist = [w \in Workers |-> IdleHist]
    /\ done = {}
    /\ job = [id \in AccountIds |-> NoJob]
    /\ imapBox = [id \in AccountIds |-> JobBox]
    /\ imapBad = {}
    /\ graphMsgs = {}
    /\ upstream = [svc \in Services |-> "ok"]

\* requests of the two users to the emails API while time passes
NextApi ==
    \/ \E u \in UserIds, id \in 1..MaxRows, isRead \in BOOLEAN :
          UpdateReadStatus("w1", u, id, isRead)
    \/ \E id \in 1..MaxRows : SoftDelete(id)
    \/ Tick

SpecApi == InitApi /\ [][NextApi]_vars

\* users start OAuth links and the callbacks of Microsoft, one per worker,
\* present state values, issued or not, at any time
NextOAuthState ==
    \/ \E u \in UserIds : GenerateOutlookState(u)
    \/ \E k \in 1..MaxCalls : CacheExpire(k)
    \/ \E w \in Workers, k \in 1..MaxCalls : VerifyOutlookStateGet(w, k)
    \/ \E w \in Workers : VerifyOutlookStateDel(w)

SpecOAuthState == InitOnboard /\ [][NextOAuthState]_vars

----------------------------------------------------------------------------
(* FolderNormalizerUtil.normalizeFolderName called on drawn arguments *)

\* nothing linked, nothing stored, no request or job under way
InitQuiet ==
    /\ accounts = [id \in AccountIds |-> NoAccount]
    /\ emails = {}
    /\ nextId = 1
    /\ issued = 1
    /\ clock = 1
    /\ calls = 0
    /\ pc = [w \in Workers |-> "idle"]
    /\ loc = [w \in Workers |-> IdleLoc]
    /\ hist = [w \in Workers |-> IdleHist]
    /\ done = {}
    /\ job = [id \in AccountIds |-> NoJob]
    /\ imapBox = [id \in AccountIds |-> JobBox]
    /\ imapBad = {}
    /\ graphMsgs = {}
    /\ upstream = [s \in Services |-> "ok"]

\* folder paths a server lists
NormalizePaths ==
    { s_INBOX, <<"I","n","b","o","x">>, s_Sent, s_SentItems, <<"[","G","m","a","i","l","]","/","S","e","n","t"," ","M","a","i","l">>, <<"[","G","m","a","i","l","]","/","A","l","l"," ","M","a","i","l">>,
      <<"D","r","a","f","t">>, <<"B","u","l","k"," ","M","a","i","l">>, <<"D","e","l","e","t","e","d"," ","M","e","s","s","a","g","e","s">>, <<"S","t","a","r","r","e","d">>, <<"W","o","r","k">> }

\* provider argument: null, a provider with a table (in either case), one without
NormalizeProviders == { <<>>, s_gmail, s_yahoo, <<"Y","a","h","o","o">>, s_icloud }

\* specialUse argument: absent, RFC 6154 values, one the switch does not know
NormalizeSpecialUses == { <<>>, f_Sent, <<"\\","T","r","a","s","h">>, <<"\\","J","u","n","k">>, <<"\\","A","l","l">> }

\* flags argument
NormalizeFlags ==
    { {}, {f_HasNoChildren}, {f_Sent, f_HasNoChildren}, {<<"\\","T","r","a","s","h">>},
      {f_Sent, <<"\\","T","r","a","s","h">>}, {<<"\\","F","l","a","g","g","e","d">>} }

InitNormalize ==
    /\ InitQuiet
    /\ cache = {}
    /\ email_fts = <<>>
    /\ locks = {}
    /\ refreshTokens = {}
    /\ \E folderPath \in NormalizePaths, provider \in NormalizeProviders,
          specialUse \in NormalizeSpecialUses, flags \in NormalizeFlags :
          call = [fn |-> "none", args |-> <<folderPath, provider, specialUse, flags>>,
                  result |-> <<>>]

\* one call of normalizeFolderName on the drawn arguments; result keeps the
\* value every call returned
NormalizeFolderNameCall ==
    /\ Len(call.result) < MaxCalls
    /\ call' = [call EXCEPT
                   !.fn = "normalizeFolderName",
                   !.result = Append(@, normalizeFolderName(call.args[1], call.args[2],
                                                            call.args[3], call.args[4]))]
    /\ UNCHANGED << accounts, emails, nextId, imapBox, imapBad, graphMsgs, upstream,
                    issued, clock, pc, loc, job, calls, hist, done, cache, email_fts, locks, refreshTokens >>

SpecNormalize == InitNormalize /\ [][NormalizeFolderNameCall]_vars

----------------------------------------------------------------------------

(* The email_fts table: migrations, trigger and cascade *)

\* before any migration: no email_fts table
NoFtsSchema ==
    [table |-> FALSE, pkey |-> FALSE, fkey |-> FALSE, ginIdx |-> FALSE,
     uniqueIdx |-> FALSE, function |-> FALSE, trigger |-> FALSE, failed |-> FALSE]

Failed(s) == [s EXCEPT !.failed = TRUE]

\* CREATE TABLE email_fts (email_id PRIMARY KEY REFERENCES "Email"(id) ON
\* DELETE CASCADE ...); CREATE FUNCTION; CREATE TRIGGER; CREATE INDEX
migration_create_fts(s) ==
    IF s.table \/ s.function \/ s.trigger THEN Failed(s)
    ELSE [s EXCEPT !.table = TRUE, !.pkey = TRUE, !.fkey = TRUE,
                   !.function = TRUE, !.trigger = TRUE, !.ginIdx = TRUE]

\* 20260129001459_added_refresh_token: DROP CONSTRAINT email_fts_email_id_fkey;
\* DROP INDEX email_fts_idx; DROP CONSTRAINT email_fts_pkey
migration_added_refresh_token(s) ==
    IF ~ (s.table /\ s.fkey /\ s.ginIdx /\ s.pkey) THEN Failed(s)
    ELSE [s EXCEPT !.fkey = FALSE, !.ginIdx = FALSE, !.pkey = FALSE]

\* 20260129101040_fix_bug_fts: DROP TRIGGER IF EXISTS; DROP FUNCTION IF
\* EXISTS; CREATE UNIQUE INDEX IF NOT EXISTS; CREATE FUNCTION; CREATE TRIGGER
migration_fix_bug_fts(s) ==
    IF ~ s.table THEN Failed(s)
    ELSE [s EXCEPT !.uniqueIdx = TRUE, !.function = TRUE, !.trigger = TRUE]

\* the migration that leaves the foreign key dropped
migration_restore_keysNoForeignKey(s) ==
    IF ~ s.table \/ s.pkey \/ s.fkey THEN Failed(s)
    ELSE [s EXCEPT !.pkey = TRUE, !.function = TRUE, !.trigger = TRUE]

\* ADD CONSTRAINT email_fts_pkey PRIMARY KEY; ADD CONSTRAINT
\* email_fts_email_id_fkey ... ON DELETE CASCADE; CREATE OR REPLACE FUNCTION;
\* DROP TRIGGER IF EXISTS; CREATE TRIGGER
migration_restore_keys(s) ==
    IF ~ s.table \/ s.pkey \/ s.fkey THEN Failed(s)
    ELSE [s EXCEPT !.pkey = TRUE, !.fkey = TRUE, !.function = TRUE, !.trigger = TRUE]

ApplyMigration(name, s) ==
    IF s.failed THEN s
    ELSE IF name = "create_fts" THEN migration_create_fts(s)
    ELSE IF name = "added_refresh_token" THEN migration_added_refresh_token(s)
    ELSE IF name = "fix_bug_fts" THEN migration_fix_bug_fts(s)
    ELSE migration_restore_keys(s)

\* prisma migrate deploy: the migrations in their order; the first that
\* fails stops the run
RECURSIVE MigrateDeploy(_, _)
MigrateDeploy(order, s) ==
    IF order = <<>> THEN s
    ELSE MigrateDeploy(Tail(order), ApplyMigration(Head(order), s))

\* the two migrations of src/src/prisma/migrations that touch email_fts keep
\* their timestamp order; the two whose directory names are unknown take
\* any place
MigrationOrders ==
    LET names == {"create_fts", "added_refresh_token", "fix_bug_fts", "restore_keys"}
        Pos(o, n) == CHOOSE i \in 1..4 : o[i] = n
    IN  { o \in [1..4 -> names] :
            /\ \A n \in names : \E i \in 1..4 : o[i] = n
            /\ Pos(o, "added_refresh_token") < Pos(o, "fix_bug_fts") }

\* to_tsvector of the subject, body and sender of the row
to_tsvector(new) == new.messageId

\* email_fts_update(): INSERT ... ON CONFLICT (email_id) DO UPDATE SET
\* search_vector = EXCLUDED.search_vector. ON CONFLICT needs a unique
\* constraint or index on email_id; without one the statement is an error.
email_fts_update(fts, s, new) ==
    IF ~ (s.pkey \/ s.uniqueIdx) THEN [ok |-> FALSE, fts |-> fts]
    ELSE IF \E i \in 1..Len(fts) : fts[i].email_id = new.id
    THEN [ok |-> TRUE,
          fts |-> [i \in 1..Len(fts) |->
                     IF fts[i].email_id = new.id
                     THEN [fts[i] EXCEPT !.search_vector = to_tsvector(new)]
                     ELSE fts[i]]]
    ELSE [ok |-> TRUE,
          fts |-> Append(fts, [email_id |-> new.id, search_vector |-> to_tsvector(new)])]

\* email_fts_trigger AFTER INSERT OR UPDATE ON "Email" FOR EACH ROW
RECURSIVE email_fts_trigger(_, _, _)
email_fts_trigger(fts, s, news) ==
    IF ~ (s.trigger /\ s.function) \/ news = {} THEN [ok |-> TRUE, fts |-> fts]
    ELSE LET new == CHOOSE r \in news : \A q \in news : r.id <= q.id
             one == email_fts_update(fts, s, new)
         IN  IF one.ok THEN email_fts_trigger(one.fts, s, news \ {new}) ELSE one

\* ON DELETE CASCADE of email_fts_email_id_fkey
RECURSIVE SelectFts(_, _)
SelectFts(fts, ids) ==
    IF fts = <<>> THEN <<>>
    ELSE IF Head(fts).email_id \in ids
         THEN <<Head(fts)>> \o SelectFts(Tail(fts), ids)
         ELSE SelectFts(Tail(fts), ids)

onDeleteCascade(fts, s, rows) ==
    IF s.fkey THEN SelectFts(fts, {r.id : r \in rows}) ELSE fts

\* prisma.email.deleteMany({ where: { accountId } })
deleteByAccountId(rows, accountId) == { r \in rows : r.accountId # accountId }

\* a statement on "Email" and the trigger run as one: an error in the
\* trigger undoes the statement
EmailStatement(after, touched) ==
    LET fired == email_fts_trigger(email_fts, call.result, touched)
    IN  /\ emails' = IF fired.ok THEN after ELSE emails
        /\ email_fts' = fired.fts

EmailInsert(accountId, uid, rawFolder) ==
    /\ nextId <= MaxInserts
    /\ LET r == createMany(emails, nextId,
                           <<ImapRow(accountId, uid, rawFolder,
                                     normalizeFolderName(rawFolder, <<>>, <<>>, {}))>>)
       IN  /\ EmailStatement(r.rows, r.rows \ emails)
           /\ nextId' = r.nextId
    /\ UNCHANGED << accounts, imapBox, imapBad, graphMsgs, upstream, issued, clock,
                    pc, loc, job, calls, hist, done, cache, locks, call, refreshTokens >>

EmailUpdateReadStatus(id, isRead) ==
    /\ \E r \in emails : r.id = id
    /\ LET after == updateReadStatus(emails, id, isRead)
       IN  EmailStatement(after, {r \in after : r.id = id})
    /\ UNCHANGED << accounts, nextId, imapBox, imapBad, graphMsgs, upstream, issued,
                    clock, pc, loc, job, calls, hist, done, cache, locks, call, refreshTokens >>

EmailSoftDelete(id) ==
    /\ \E r \in emails : r.id = id /\ r.deletedAt = NULL
    /\ Cardinality({ r \in emails : r.deletedAt # NULL }) < MaxTombstones
    /\ LET after == softDelete(emails, id, clock)
       IN  EmailStatement(after, {r \in after : r.id = id})
    /\ UNCHANGED << accounts, nextId, imapBox, imapBad, graphMsgs, upstream, issued,
                    clock, pc, loc, job, calls, hist, done, cache, locks, call, refreshTokens >>

EmailDeleteByAccountId(accountId) ==
    /\ \E r \in emails : r.accountId = accountId
    /\ emails' = deleteByAccountId(emails, accountId)
    /\ email_fts' = onDeleteCascade(email_fts, call.result, emails')
    /\ UNCHANGED << accounts, nextId, imapBox, imapBad, graphMsgs, upstream, issued,
                    clock, pc, loc, job, calls, hist, done, cache, locks, call, refreshTokens >>

\* the database after prisma migrate deploy applied every migration
InitFts ==
    /\ InitQuiet
    /\ cache = {}
    /\ email_fts = <<>>
    /\ locks = {}
    /\ refreshTokens = {}
    /\ \E order \in MigrationOrders :
          /\ ~ MigrateDeploy(order, NoFtsSchema).failed
          /\ call = [fn |-> "migrate deploy", args |-> order,
                     result |-> MigrateDeploy(order, NoFtsSchema)]

NextFts ==
    \/ \E a \in AccountIds, uid \in 1..MaxUid : EmailInsert(a, uid, s_INBOX)
    \/ \E id \in 1..MaxInserts, isRead \in BOOLEAN : EmailUpdateReadStatus(id, isRead)
    \/ \E id \in 1..MaxInserts : EmailSoftDelete(id)
    \/ \E a \in AccountIds : EmailDeleteByAccountId(a)

SpecFts == InitFts /\ [][NextFts]_vars

----------------------------------------------------------------------------

(* ImapClientUtil: the mailbox lock of fetchEmailsByUid and getHighestUid *)

\* each caller has its own client; fn is the method called
CallImapClient(w, fn, folder) ==
    /\ pc[w] = "idle"
    /\ calls < MaxCalls
    /\ calls' = calls + 1
    /\ pc' = [pc EXCEPT ![w] = "client_ensure"]
    /\ loc' = [loc EXCEPT ![w] = [IdleLoc EXCEPT !.caller = fn, !.folder = folder]]
    /\ UNCHANGED << accounts, emails, nextId, imapBox, imapBad, graphMsgs, upstream,
                    issued, clock, job, hist, done, cache, email_fts, locks, call, refreshTokens >>

\* await this.ensureConnection(), outside the try of both methods: it
\* returns, or throws and the method throws with it
EnsureConnection(w, ok) ==
    /\ pc[w] = "client_ensure"
    /\ pc' = [pc EXCEPT ![w] = IF ok THEN "client_lock" ELSE "client_threw"]
    /\ loc' = [loc EXCEPT ![w].error = IF ok THEN "none" ELSE "reconnect"]
    /\ UNCHANGED << accounts, emails, nextId, imapBox, imapBad, graphMsgs, upstream,
                    issued, clock, job, calls, hist, done, cache, email_fts, locks, call, refreshTokens >>

\* const lock = await this.client.getMailboxLock(folder): the lock is held
\* when it returns; when it throws no lock was given, and the outer catch
\* rethrows (fetchEmailsByUid) or returns 0 (getHighestUid)
GetMailboxLock(w, ok) ==
    /\ pc[w] = "client_lock"
    /\ IF ok
       THEN /\ locks' = locks \cup {[client |-> w, folder |-> loc[w].folder]}
            /\ pc' = [pc EXCEPT ![w] = "client_body"]
            /\ loc' = loc
       ELSE /\ locks' = locks
            /\ pc' = [pc EXCEPT ![w] =
                        IF loc[w].caller = "fetchEmailsByUid"
                        THEN "client_threw" ELSE "client_returned"]
            /\ loc' = [loc EXCEPT ![w].error = "lock", ![w].highestUid = 0]
    /\ UNCHANGED << accounts, emails, nextId, imapBox, imapBad, graphMsgs, upstream,
                    issued, clock, job, calls, hist, done, cache, email_fts, call, refreshTokens >>

\* lock.release()
release(held, w, folder) == held \ {[client |-> w, folder |-> folder]}

\* the inner try ends without the finally block: the lock is released on
\* the normal return only
ClientBodyNoFinally(w, ok) ==
    /\ pc[w] = "client_body"
    /\ locks' = IF ok THEN release(locks, w, loc[w].folder) ELSE locks
    /\ pc' = [pc EXCEPT ![w] =
                 IF ok \/ loc[w].caller = "getHighestUid"
                 THEN "client_returned" ELSE "client_threw"]
    /\ loc' = [loc EXCEPT
                 ![w].error = IF ok THEN "none" ELSE "body",
                 ![w].messages = IF ok /\ loc[w].caller = "fetchEmailsByUid"
                                 THEN fetchEmailsByUid(imapBox["imap"], loc[w].folder, 1, MaxUid)
                                 ELSE <<>>,
                 ![w].highestUid = IF ok /\ loc[w].caller = "getHighestUid"
                                   THEN adapterHighestUid(imapBox["imap"], loc[w].folder)
                                   ELSE 0]
    /\ UNCHANGED << accounts, emails, nextId, imapBox, imapBad, graphMsgs, upstream,
                    issued, clock, job, calls, hist, done, cache, email_fts, call, refreshTokens >>

\* the inner try: the fetch loop or the status call returns or throws; the
\* finally block releases the lock either way; then fetchEmailsByUid returns
\* the messages or rethrows, getHighestUid returns uidNext - 1 or 0
ClientBody(w, ok) ==
    /\ pc[w] = "client_body"
    /\ locks' = release(locks, w, loc[w].folder)
    /\ pc' = [pc EXCEPT ![w] =
                 IF ok \/ loc[w].caller = "getHighestUid"
                 THEN "client_returned" ELSE "client_threw"]
    /\ loc' = [loc EXCEPT
                 ![w].error = IF ok THEN "none" ELSE "body",
                 ![w].messages = IF ok /\ loc[w].caller = "fetchEmailsByUid"
                                 THEN fetchEmailsByUid(imapBox["imap"], loc[w].folder, 1, MaxUid)
                                 ELSE <<>>,
                 ![w].highestUid = IF ok /\ loc[w].caller = "getHighestUid"
                                   THEN adapterHighestUid(imapBox["imap"], loc[w].folder)
                                   ELSE 0]
    /\ UNCHANGED << accounts, emails, nextId, imapBox, imapBad, graphMsgs, upstream,
                    issued, clock, job, calls, hist, done, cache, email_fts, call, refreshTokens >>

\* the caller takes the result; the client is free for its next call
ClientCallEnds(w) ==
    /\ pc[w] \in {"client_returned", "client_threw"}
    /\ pc' = [pc EXCEPT ![w] = "idle"]
    /\ UNCHANGED << accounts, emails, nextId, imapBox, imapBad, graphMsgs, upstream,
                    issued, clock, loc, job, calls, hist, done, cache, email_fts,
                    locks, call, refreshTokens >>

InitLocks ==
    /\ InitQuiet
    /\ InitStores

NextLocks ==
    \/ \E w \in Workers, fn \in {"fetchEmailsByUid", "getHighestUid"}, f \in ImapFolderSet :
          CallImapClient(w, fn, f)
    \/ \E w \in Workers, ok \in BOOLEAN : EnsureConnection(w, ok)
    \/ \E w \in Workers, ok \in BOOLEAN : GetMailboxLock(w, ok)
    \/ \E w \in Workers, ok \in BOOLEAN : ClientBody(w, ok)
    \/ \E w \in Workers : ClientCallEnds(w)

SpecLocks == InitLocks /\ [][NextLocks]_vars

----------------------------------------------------------------------------

(* EncryptionUtil: AES-256-GCM over salt:iv:authTag:encryptedData *)

KEY_LENGTH == 32
IV_LENGTH == 16
SALT_LENGTH == 16

\* the length of cipher.getAuthTag() for aes-256-gcm
TAG_LENGTH == 16

\* tag lengths setAuthTag accepts when createDecipheriv is given no
\* authTagLength option
ValidAuthTagLengths == {4, 8, 12, 13, 14, 15, 16}

\* randomBytes(n): n bytes decided by the draw r
randomBytes(n, r) == [i \in 1..n |-> (r * 16 + i) % 256]

\* scryptSync(secret, salt, KEY_LENGTH): a key that differs when the secret
\* or the salt differ
deriveKey(secret, salt) == [secret |-> secret, salt |-> salt, length |-> KEY_LENGTH]

\* the UTF-8 bytes of a character; the characters are one ASCII letter, one
\* two-byte and one three-byte character
utf8Of(c) ==
    IF c = "p" THEN <<112>>
    ELSE IF c = "U+00E9" THEN <<195, 169>>
    ELSE <<226, 130, 172>>

RECURSIVE utf8Encode(_)
utf8Encode(s) == IF s = <<>> THEN <<>> ELSE utf8Of(Head(s)) \o utf8Encode(Tail(s))

\* bytes to string; a sequence that is not UTF-8 gives U+FFFD
RECURSIVE utf8Decode(_)
utf8Decode(b) ==
    IF b = <<>> THEN <<>>
    ELSE IF b[1] < 128 THEN <<(IF b[1] = 112 THEN "p" ELSE "?")>> \o utf8Decode(Tail(b))
    ELSE IF Len(b) >= 2 /\ b[1] = 195 /\ b[2] = 169
         THEN <<"U+00E9">> \o utf8Decode(SubSeq(b, 3, Len(b)))
    ELSE IF Len(b) >= 3 /\ b[1] = 226 /\ b[2] = 130 /\ b[3] = 172
         THEN <<"U+20AC">> \o utf8Decode(SubSeq(b, 4, Len(b)))
    ELSE <<"U+FFFD">> \o utf8Decode(Tail(b))

\* the base64 text of a byte sequence, one symbol for each byte
toBase64(bytes) == [i \in 1..Len(bytes) |-> [junk |-> FALSE, byte |-> bytes[i]]]

\* Buffer.from(text, 'base64'): characters outside the base64 alphabet
\* (white space among them) are skipped
RECURSIVE fromBase64(_)
fromBase64(text) ==
    IF text = <<>> THEN <<>>
    ELSE IF Head(text).junk THEN fromBase64(Tail(text))
    ELSE <<Head(text).byte>> \o fromBase64(Tail(text))

\* aes-256-gcm: byte i of the output is byte i of the input under the key
\* stream of (key, iv)
gcmEncrypt(key, iv, bytes) ==
    [i \in 1..Len(bytes) |-> [key |-> key, iv |-> iv, i |-> i, plain |-> bytes[i]]]

gcmDecrypt(key, iv, data) ==
    [i \in 1..Len(data) |->
        IF data[i].key = key /\ data[i].iv = iv /\ data[i].i = i
        THEN data[i].plain ELSE 255]

\* the authentication tag of (key, iv, data)
gcmTag(key, iv, data) ==
    [i \in 1..TAG_LENGTH |-> [key |-> key, iv |-> iv, data |-> data, i |-> i]]

NoValue == [error |-> "none", value |-> <<>>]

\* encrypt(plaintext, secret) with the draws of its two randomBytes calls;
\* the value is the four base64 parts that join(':') puts together
encrypt(plaintext, secret, r1, r2) ==
    IF Len(secret) < 32 THEN [NoValue EXCEPT !.error = "secret"]
    ELSE LET salt == randomBytes(SALT_LENGTH, r1)
             iv == randomBytes(IV_LENGTH, r2)
             key == deriveKey(secret, salt)
             encrypted == gcmEncrypt(key, iv, utf8Encode(plaintext))
             authTag == gcmTag(key, iv, encrypted)
         IN  [NoValue EXCEPT !.value = << toBase64(salt), toBase64(iv),
                                          toBase64(authTag), toBase64(encrypted) >>]

\* decrypt(encryptedData, secret); parts is encryptedData.split(':')
decrypt(parts, secret) ==
    IF Len(secret) < 32 THEN [NoValue EXCEPT !.error = "secret"]
    ELSE IF Len(parts) # 4 THEN [NoValue EXCEPT !.error = "format"]
    ELSE LET salt == fromBase64(parts[1])
             iv == fromBase64(parts[2])
             authTag == fromBase64(parts[3])
             encrypted == fromBase64(parts[4])
             key == deriveKey(secret, salt)
             expected == gcmTag(key, iv, encrypted)
         IN  IF Len(authTag) \notin ValidAuthTagLengths
             THEN [NoValue EXCEPT !.error = "setAuthTag"]
             ELSE IF authTag # SubSeq(expected, 1, Len(authTag))
             THEN [NoValue EXCEPT !.error = "final"]
             ELSE [NoValue EXCEPT !.value = utf8Decode(gcmDecrypt(key, iv, encrypted))]

\* what somebody with access to the stored string can do to one part of it
Alterations == {"flip", "truncate", "whitespace", "colon"}

FlipByte(part, b) ==
    IF part = 3 THEN [b EXCEPT !.i = 0]
    ELSE IF part = 4 THEN [b EXCEPT !.plain = (@ + 1) % 256]
    ELSE (b + 1) % 256

AlterPart(part, text, how) ==
    IF how = "flip"
    THEN <<[text[1] EXCEPT !.byte = FlipByte(part, @)]>> \o Tail(text)
    ELSE IF how = "truncate" THEN SubSeq(text, 1, Len(text) - 4)
    ELSE Append(text, [text[1] EXCEPT !.junk = TRUE])

Alter(parts, part, how) ==
    IF how = "colon"
    THEN SubSeq(parts, 1, part - 1)
         \o << SubSeq(parts[part], 1, 1), Tail(parts[part]) >>
         \o SubSeq(parts, part + 1, 4)
    ELSE [parts EXCEPT ![part] = AlterPart(part, @, how)]

CryptPlaintexts == { <<>>, <<"p">>, <<"p", "U+00E9">>, <<"U+20AC", "p">> }

\* secrets of 31, 32 and 33 characters
CryptSecrets == { [i \in 1..n |-> "k"] : n \in 31..33 }

InitCrypt ==
    /\ InitQuiet
    /\ cache = {}
    /\ email_fts = <<>>
    /\ locks = {}
    /\ refreshTokens = {}
    /\ \E p \in CryptPlaintexts, k \in CryptSecrets :
          call = [fn |-> "none", args |-> <<p, k, FALSE>>, result |-> NoValue]

EncryptCall(r1, r2) ==
    /\ call.fn = "none"
    /\ call' = [call EXCEPT !.fn = "encrypt",
                            !.result = encrypt(call.args[1], call.args[2], r1, r2)]
    /\ UNCHANGED << accounts, emails, nextId, imapBox, imapBad, graphMsgs, upstream,
                    issued, clock, pc, loc, job, calls, hist, done, cache, email_fts, locks, refreshTokens >>

\* the stored string is changed in one part before it is read back
AlterStored(part, how) ==
    /\ call.fn = "encrypt"
    /\ call.result.error = "none"
    /\ call.result.value[part] # <<>>
    /\ call' = [call EXCEPT !.fn = "stored",
                            !.args[3] = TRUE,
                            !.result.value = Alter(@, part, how)]
    /\ UNCHANGED << accounts, emails, nextId, imapBox, imapBad, graphMsgs, upstream,
                    issued, clock, pc, loc, job, calls, hist, done, cache, email_fts, locks, refreshTokens >>

DecryptCall ==
    /\ call.fn \in {"encrypt", "stored"}
    /\ call.result.error = "none"
    /\ call' = [call EXCEPT !.fn = "decrypt",
                            !.result = decrypt(call.result.value, call.args[2])]
    /\ UNCHANGED << accounts, emails, nextId, imapBox, imapBad, graphMsgs, upstream,
                    issued, clock, pc, loc, job, calls, hist, done, cache, email_fts, locks, refreshTokens >>

NextCrypt ==
    \/ \E r1, r2 \in 1..2 : EncryptCall(r1, r2)
    \/ \E part \in 1..4, how \in Alterations : AlterStored(part, how)
    \/ DecryptCall

SpecCrypt == InitCrypt /\ [][NextCrypt]_vars

----------------------------------------------------------------------------

(* Mail arriving in a Graph mailbox while it is being synced *)

\* the mail server delivers a message into the Graph folder fid: its
\* receivedDateTime is the time of delivery
GraphMessageArrives(fid) ==
    /\ Cardinality(graphMsgs) < MaxUid
    /\ graphMsgs' = graphMsgs \cup
          { [id |-> Cardinality(graphMsgs) + 1, folderId |-> fid,
             receivedDateTime |-> clock, bad |-> FALSE] }
    /\ UNCHANGED << accounts, emails, nextId, imapBox, imapBad, upstream,
                    issued, clock, pc, loc, job, hist, done, calls,
                    cache, email_fts, locks, call, refreshTokens >>

\* a token account without a password whose Inbox holds one message
InitArrive ==
    /\ InitCommon
    /\ accounts["graph"].password = FALSE
    /\ imapBox = [id \in AccountIds |-> GraphImapBox]
    /\ imapBad = {}
    /\ graphMsgs = { [id |-> 1, folderId |-> GraphFolders[1].id,
                      receivedDateTime |-> 1, bad |-> FALSE] }
    /\ upstream = [svc \in Services |-> "ok"]

\* one caller syncs the Inbox of the token account again and again while time
\* passes and mail arrives in the Inbox
NextArrive ==
    \/ CallSyncFolder("w1", "graph", GraphFolders[1].displayName, MaxChunk)
    \/ CallAgain("w1", "graph", GraphFolders[1].displayName, MaxChunk)
    \/ FindById("w1")
    \/ GraphSteps("w1")
    \/ AddFolderFlagRead("w1")
    \/ AddFolderFlagWrite("w1")
    \/ GraphMessageArrives(GraphFolders[1].id)
    \/ Tick

SpecArrive == InitArrive /\ [][NextArrive]_vars

----------------------------------------------------------------------------

(* AuthService.rotateRefreshToken: rotation of a login refresh token *)

REFRESH_TOKEN_DAYS == 30

\* AuthUtils.hashPassword and AuthUtils.verifyPassword (argon2)
hashPassword(password) == 0 - password

verifyPassword(hashedPassword, plainPassword) ==
    hashedPassword = hashPassword(plainPassword)

\* AuthUtils.generateRandomToken() for the row tokenId: a secret no other row has
generateRandomToken(tokenId) == 2 * tokenId + 1

\* AuthRepository.findRefreshTokenById
findRefreshTokenById(rows, id) ==
    IF \E t \in rows : t.id = id THEN CHOOSE t \in rows : t.id = id ELSE NoToken

\* AuthRepository.revokeRefreshToken
revokeRefreshToken(rows, id) ==
    { IF t.id = id THEN [t EXCEPT !.isRevoked = TRUE] ELSE t : t \in rows }

\* AuthRepository.rotateRefreshToken: update ... where id = oldTokenId
rotateRefreshToken(rows, oldTokenId, newTokenId) ==
    { IF t.id = oldTokenId
      THEN [t EXCEPT !.isRevoked = TRUE, !.replacedBy = newTokenId]
      ELSE t : t \in rows }

\* AuthService.generateRefreshToken: the row it creates (tokenId is the fresh
\* AuthUtils.generateUuid())
newRefreshTokenRow(tokenId, userId, now) ==
    [id |-> tokenId, userId |-> userId,
     tokenHash |-> hashPassword(generateRandomToken(tokenId)),
     expiresAt |-> now + REFRESH_TOKEN_DAYS, isRevoked |-> FALSE, replacedBy |-> NULL]

\* POST /auth/refresh: rotateRefreshToken(`${tokenId}:${tokenSecret}`) starts;
\* a token with an empty half is rejected at once
RotateRefreshTokenCall(w, tokenId, tokenSecret) ==
    /\ pc[w] \in {"idle", "rotate_returned", "threw"}
    /\ calls < MaxCalls + 1
    /\ calls' = calls + 1
    /\ pc' = [pc EXCEPT ![w] = IF tokenId = NULL \/ tokenSecret = NULL
                               THEN "threw" ELSE "rotate_find"]
    /\ loc' = [loc EXCEPT ![w] =
                 [IdleLoc EXCEPT !.tokenId = tokenId, !.tokenSecret = tokenSecret,
                                 !.caller = "refresh",
                                 !.error = IF tokenId = NULL \/ tokenSecret = NULL
                                           THEN "Invalid refresh token format"
                                           ELSE "none"]]
    /\ UNCHANGED << accounts, emails, nextId, imapBox, imapBad, graphMsgs,
                    upstream, issued, clock, job, hist, done,
                    cache, email_fts, locks, call, refreshTokens >>

\* storedToken = await findRefreshTokenById(tokenId) and the checks made on it
RotateFind(w) ==
    /\ pc[w] = "rotate_find"
    /\ LET storedToken == findRefreshTokenById(refreshTokens, loc[w].tokenId)
       IN  IF storedToken.id = NULL
           THEN Throws(w, "Invalid refresh token")
           ELSE IF storedToken.isRevoked
           THEN IF storedToken.replacedBy # NULL
                THEN /\ pc' = [pc EXCEPT ![w] = "rotate_revokeReplacedBy"]
                     /\ loc' = [loc EXCEPT ![w].storedToken = storedToken]
                ELSE Throws(w, "Refresh token reused - security alert")
           ELSE IF ~ verifyPassword(storedToken.tokenHash, loc[w].tokenSecret)
           THEN Throws(w, "Invalid refresh token")
           ELSE IF storedToken.expiresAt < clock
           THEN Throws(w, "Refresh token expired")
           ELSE /\ pc' = [pc EXCEPT ![w] = "rotate_generate"]
                /\ loc' = [loc EXCEPT ![w].storedToken = storedToken]
    /\ UNCHANGED << accounts, emails, nextId, imapBox, imapBad, graphMsgs,
                    upstream, issued, clock, job, hist, done, calls,
                    cache, email_fts, locks, call, refreshTokens >>

\* reuse detected: await revokeRefreshToken(storedToken.replacedBy), then throw
RotateRevokeReplacedBy(w) ==
    /\ pc[w] = "rotate_revokeReplacedBy"
    /\ refreshTokens' = revokeRefreshToken(refreshTokens, loc[w].storedToken.replacedBy)
    /\ Throws(w, "Refresh token reused - security alert")
    /\ UNCHANGED << accounts, emails, nextId, imapBox, imapBad, graphMsgs,
                    upstream, issued, clock, job, hist, done, calls,
                    cache, email_fts, locks, call >>

\* newRefreshToken = await generateRefreshToken(user.id)
RotateGenerate(w) ==
    /\ pc[w] = "rotate_generate"
    /\ Cardinality(refreshTokens) < MaxTokens
    /\ LET tokenId == Cardinality(refreshTokens) + 1
       IN  /\ refreshTokens' = refreshTokens \cup
                 { newRefreshTokenRow(tokenId, loc[w].storedToken.userId, clock) }
           /\ loc' = [loc EXCEPT ![w].newRefreshToken =
                                    <<tokenId, generateRandomToken(tokenId)>>]
    /\ pc' = [pc EXCEPT ![w] = "rotate_rotate"]
    /\ UNCHANGED << accounts, emails, nextId, imapBox, imapBad, graphMsgs,
                    upstream, issued, clock, job, hist, done, calls,
                    cache, email_fts, locks, call >>

\* await authRepository.rotateRefreshToken(tokenId, newTokenId); return the pair
RotateRotate(w) ==
    /\ pc[w] = "rotate_rotate"
    /\ refreshTokens' = rotateRefreshToken(refreshTokens, loc[w].tokenId,
                                           loc[w].newRefreshToken[1])
    /\ pc' = [pc EXCEPT ![w] = "rotate_returned"]
    /\ UNCHANGED << accounts, emails, nextId, imapBox, imapBad, graphMsgs,
                    upstream, issued, clock, job, loc, hist, done, calls,
                    cache, email_fts, locks, call >>

\* the user holds refresh token 1, issued at login just now or 30 days ago
InitRotate ==
    /\ InitQuiet
    /\ cache = {}
    /\ email_fts = <<>>
    /\ locks = {}
    /\ call = NoCall
    /\ \E issuedAt \in {1 - REFRESH_TOKEN_DAYS, 1} :
          refreshTokens = { newRefreshTokenRow(1, "u1", issuedAt) }

\* two clients present refresh tokens, right or wrong, while time passes
NextRotate ==
    \/ \E w \in Workers, tokenId \in 0..MaxTokens, guess \in BOOLEAN :
          RotateRefreshTokenCall(w, tokenId,
              IF guess THEN generateRandomToken(tokenId) + 1
                       ELSE generateRandomToken(tokenId))
    \/ \E w \in Workers : RotateRefreshTokenCall(w, 1, NULL)
    \/ \E w \in Workers : RotateFind(w)
    \/ \E w \in Workers : RotateRevokeReplacedBy(w)
    \/ \E w \in Workers : RotateGenerate(w)
    \/ \E w \in Workers : RotateRotate(w)
    \/ Tick

SpecRotate == InitRotate /\ [][NextRotate]_vars

----------------------------------------------------------------------------

(* SyncService.discoverFolders applied to drawn folder listings *)

\* folders.map(f => f.path).filter(shouldSyncFolder), then sortFoldersByPriority
discoverFolders(paths) == sortFoldersByPriority(filterShouldSync(paths))

\* folder paths a server may list
DiscoverPaths ==
    { s_INBOX, s_SentItems, <<"D","r","a","f","t","s">>, <<"B","i","n">>, <<"S","p","a","m">>, <<"B","u","l","k"," ","M","a","i","l">>, <<"N","o","t","e","s">>, <<"A","r","c","h","i","v","e">> }

\* listings of up to MaxFolders distinct folders
DiscoverListings ==
    { q \in UNION { [1..n -> DiscoverPaths] : n \in 1..MaxFolders } :
         \A i, j \in 1..Len(q) : q[i] = q[j] => i = j }

InitDiscover ==
    /\ InitQuiet
    /\ cache = {}
    /\ email_fts = <<>>
    /\ locks = {}
    /\ refreshTokens = {}
    /\ \E paths \in DiscoverListings, provider \in {s_gmail, s_yahoo} :
          call = [fn |-> "none", args |-> <<paths, provider>>, result |-> <<>>]

\* discoverFolders on an account of the drawn provider whose server lists
\* the drawn folders
DiscoverFoldersCall ==
    /\ call.fn = "none"
    /\ call' = [call EXCEPT !.fn = "discoverFolders",
                            !.result = discoverFolders(call.args[1])]
    /\ UNCHANGED << accounts, emails, nextId, imapBox, imapBad, graphMsgs, upstream,
                    issued, clock, pc, loc, job, calls, hist, done, cache, email_fts,
                    locks, refreshTokens >>

SpecDiscover == InitDiscover /\ [][DiscoverFoldersCall]_vars

----------------------------------------------------------------------------

(* Properties *)

SameTriple(r1, r2) ==
    r1.accountId = r2.accountId /\ r1.uid = r2.uid /\ r1.folder = r2.folder

\* a row without its primary key and its API-mutable columns
Content(r) == [accountId |-> r.accountId, uid |-> r.uid, folder |-> r.folder,
               messageId |-> r.messageId]

\* the canonical name syncFolder computes for a raw folder of an account
CanonicalOf(accountId, rawFolder) ==
    LET provider == detectProvider(accounts[accountId].email)
        meta     == getFolderMetadata(rawFolder)
    IN  normalizeFolderName(rawFolder, IF provider = <<>> THEN s_unknown ELSE provider,
                            meta.specialUse, meta.flags)

\* C1: on the IMAP path, a syncFolder that starts after a successful
\* syncFolder of the same account and folder, with the Email table unchanged
\* since that return and not changed by anyone else while it runs, returns
\* emailsSynced = 0 and leaves the Email table exactly as it found it.
C1_RerunInsertsNothing ==
    \A w \in Workers :
        ( /\ pc[w] = "returned"
          /\ loc[w].path = "imap"
          /\ hist[w].afterDone
          /\ ~ hist[w].disturbed )
        => ( /\ loc[w].result.emailsSynced = 0
             /\ emails = hist[w].atCall )

\* a second run over a mirrored folder has returned; its last chunk held a
\* message the parser rejects
C1_Witness ==
    \E w \in Workers :
        /\ pc[w] = "returned"
        /\ loc[w].path = "imap"
        /\ hist[w].afterDone
        /\ ~ hist[w].disturbed
        /\ loc[w].parseFailed
        /\ emails # {}

\* C2: a soft-deleted row keeps its tombstone and stays the only row of its
\* (accountId, uid, folder) across every step of every sync run.
C2_TombstonesSurvive ==
    [][ \A r \in emails :
           r.deletedAt # NULL =>
              /\ \E r2 \in emails' : SameTriple(r, r2) /\ r2.deletedAt # NULL
              /\ Cardinality({ r2 \in emails' : SameTriple(r, r2) }) = 1 ]_vars

\* a syncFolder of the tombstone's folder started after the soft delete and
\* has returned
C2_Witness ==
    \E w \in Workers :
        /\ pc[w] = "returned"
        /\ \E r \in hist[w].atCall :
              /\ r.deletedAt # NULL
              /\ r.accountId = loc[w].accountId
              /\ r.folder = loc[w].normalizedFolder
        /\ \E r \in emails : r.deletedAt # NULL

\* C3: every Email row has uid > 0 and no two Email rows share
\* (accountId, uid, folder), whatever the interleaving of concurrent sync
\* runs on the Graph path and the IMAP path.
C3_UidPositiveTripleUnique ==
    /\ \A r \in emails : r.uid > 0
    /\ \A r1 \in emails, r2 \in emails : SameTriple(r1, r2) => r1 = r2

\* two overlapping runs built a row for the same triple and both have ended
\* their insert; the table holds rows written by the Graph path
C3_Witness ==
    /\ \E r \in emails : r.messageId[1] = "graph"
    /\ \E w1 \in Workers, w2 \in Workers :
          /\ w1 # w2
          /\ pc[w1] = "returned" /\ pc[w2] = "returned"
          /\ \E i \in 1..Len(loc[w1].emailsToCreate), j \in 1..Len(loc[w2].emailsToCreate) :
                SameTriple(loc[w1].emailsToCreate[i], loc[w2].emailsToCreate[j])

\* what one IMAP syncFolder run alone stores, starting from mirror rows0
AloneResult(rows0, accountId, rawFolder) ==
    LET canon == CanonicalOf(accountId, rawFolder)
        last  == getHighestUid(rows0, accountId, canon)
    IN  { Content(r) : r \in rows0 } \cup
        { [accountId |-> accountId, uid |-> u, folder |-> canon,
           messageId |-> <<rawFolder, u>>] :
             u \in { x \in imapBox[accountId][rawFolder] :
                       x > last /\ <<accountId, rawFolder, x>> \notin imapBad } }

\* C4: when two IMAP syncFolder runs of the same account and folder overlap
\* and both have returned, the Email table holds exactly the rows one run
\* alone would have stored, each once.
C4_ConcurrentRunsAsOne ==
    \A w1 \in Workers, w2 \in Workers :
        ( /\ w1 # w2
          /\ pc[w1] = "returned" /\ pc[w2] = "returned"
          /\ loc[w1].path = "imap" /\ loc[w2].path = "imap"
          /\ loc[w1].accountId = loc[w2].accountId
          /\ loc[w1].folder = loc[w2].folder
          /\ hist[w1].peers = {}
          /\ w1 \in hist[w2].peers )
        => LET alone == AloneResult(hist[w1].atCall, loc[w1].accountId, loc[w1].folder)
           IN  /\ { Content(r) : r \in emails } = alone
               /\ Cardinality(emails) = Cardinality(alone)

\* two overlapping runs of one folder have both returned and both stored rows
C4_Witness ==
    \E w1 \in Workers, w2 \in Workers :
        /\ w1 # w2
        /\ pc[w1] = "returned" /\ pc[w2] = "returned"
        /\ loc[w1].accountId = loc[w2].accountId
        /\ loc[w1].folder = loc[w2].folder
        /\ w1 \in hist[w2].peers
        /\ loc[w1].result.emailsSynced > 0
        /\ loc[w2].result.emailsSynced > 0


\* C10: after a successful IMAP syncFolder, for every raw folder of the
\* account the mirror's highest uid under the folder's canonical name is at
\* most the highest UID the server holds in that raw folder.
C10_WatermarkBelowServer ==
    \A w \in Workers :
        (pc[w] = "returned" /\ loc[w].path = "imap") =>
            \A raw \in ImapFolderSet :
                getHighestUid(emails, loc[w].accountId,
                              CanonicalOf(loc[w].accountId, raw))
                  <= adapterHighestUid(imapBox[loc[w].accountId], raw)

RECURSIVE IsPrefix(_, _)
IsPrefix(p, q) ==
    \/ p = <<>>
    \/ /\ q # <<>>
       /\ Head(p) = Head(q)
       /\ IsPrefix(Tail(p), Tail(q))

SyncErrors == {"ProviderUnavailable", "CredentialRejected", "NoCredentials",
               "NoImapConfig", "ParseError"}

\* C5: in a sync job, syncFolder is invoked for the job's folders in their
\* order; an attempt that has invoked syncFolder does not end, whatever the
\* calls threw, before every folder has been invoked; and the result of a
\* completed job holds one entry per folder whose syncFolder returned.
C5_FolderFailureIsolated ==
    \A a \in AccountIds :
        LET j == job[a]
        IN  /\ IsPrefix(j.invoked, j.folders)
            /\ (j.state \in {"waiting", "completed", "dead"} /\ j.invoked # <<>>)
               => j.invoked = j.folders
            /\ j.state = "completed" =>
                  /\ Len(j.outcomes) = Len(j.folders)
                  /\ Len(j.returnvalue) =
                        Cardinality({ k \in 1..Len(j.outcomes) : j.outcomes[k] = "ok" })

\* a job completed although its first folder threw; a later folder was
\* synced and its result is in the job result
C5_Witness ==
    \E a \in AccountIds :
        /\ job[a].state = "completed"
        /\ Len(job[a].outcomes) > 1
        /\ job[a].outcomes[1] \in SyncErrors
        /\ \E k \in 2..Len(job[a].outcomes) : job[a].outcomes[k] = "ok"
        /\ \E k \in 1..Len(job[a].returnvalue) : job[a].returnvalue[k].emailsSynced > 0

\* C6: once the provider has rejected the account's credentials in a sync
\* job, no further folder of the job is attempted and the job is in its
\* terminal failed state, not queued for another attempt and not completed.
C6_CredentialRejectionEndsJob ==
    \A a \in AccountIds :
        LET j == job[a]
        IN  /\ \A k \in 1..Len(j.outcomes) :
                  j.outcomes[k] = "CredentialRejected" =>
                      /\ Len(j.invoked) = k
                      /\ j.state = "dead"
            /\ j.failedReason = "CredentialRejected" => j.state = "dead"

\* C7: a job all of whose syncFolder calls threw because the provider was
\* unreachable is never reported as completed.
C7_UnreachableProviderNeverCompleted ==
    \A a \in AccountIds :
        LET j == job[a]
        IN  ( /\ Len(j.outcomes) > 0
              /\ \A k \in 1..Len(j.outcomes) : j.outcomes[k] = "ProviderUnavailable" )
            => j.state # "completed"

\* C8: a syncFolder call never ends by throwing because parseEmail threw for
\* one of the fetched messages.
C8_ParseFailureDoesNotFailCall ==
    \A w \in Workers :
        /\ pc[w] = "threw" => loc[w].error # "ParseError"
        /\ (pc[w] = "returned" /\ loc[w].error = "ParseError") =>
              \A m \in graphMsgs :
                  ( /\ ~ m.bad
                    /\ GraphFolderById(m.folderId).displayName = loc[w].folder
                    /\ m.receivedDateTime >= loc[w].account.lastSyncedAt )
                  => \E r \in emails : r.messageId = <<"graph", m.id>>

\* C9: when a Graph sync is about to make its first Graph request with the
\* access token of its refresh, the stored refresh token is the one that
\* refresh returned.
C9_StoredTokenIsReturnedToken ==
    \A w \in Workers :
        pc[w] = "graph_listFolders" =>
            accounts[loc[w].accountId].refreshToken = loc[w].tokens.refreshToken

\* C11: an IMAP syncFolder that finds no server UID at or above startUid
\* returns emailsSynced = 0, and when it has returned the folder is in the
\* account's list of synced folders (under its raw or its canonical name).
C11_EmptyFolderCountsAsSynced ==
    \A w \in Workers :
        ( /\ pc[w] = "returned"
          /\ loc[w].path = "imap"
          /\ searchUidsFromStart(imapBox[loc[w].accountId], loc[w].folder,
                                 loc[w].startUid) = {} )
        => /\ loc[w].result.emailsSynced = 0
           /\ \/ loc[w].folder \in Range(accounts[loc[w].accountId].flags)
              \/ loc[w].normalizedFolder \in Range(accounts[loc[w].accountId].flags)

\* C12: after a syncFolder that stored messages has returned, the canonical
\* folder name, under which its rows are stored, is in the account's list of
\* synced folders.
C12_SyncedFolderNameIsCanonical ==
    \A w \in Workers :
        (pc[w] = "returned" /\ loc[w].result.emailsSynced > 0)
        => loc[w].normalizedFolder \in Range(accounts[loc[w].accountId].flags)

\* the server UIDs of the call's folder above the watermark the mirror had
\* when the call was made
NewUids(w) ==
    { u \in imapBox[loc[w].accountId][loc[w].folder] :
        u > getHighestUid(hist[w].atCall, loc[w].accountId,
                          CanonicalOf(loc[w].accountId, loc[w].folder)) }

\* C13: after an IMAP syncFolder has returned that found a non-empty set S of
\* server UIDs above the watermark, all of them parseable, with nobody else
\* changing the Email table meanwhile: emailsSynced = |S|, the mirror's
\* highest uid for the canonical folder is max(S), and so is lastFetchedUid.
C13_DeltaSyncStoresAll ==
    \A w \in Workers :
        ( /\ pc[w] = "returned"
          /\ loc[w].path = "imap"
          /\ NewUids(w) # {}
          /\ \A u \in NewUids(w) :
                ~ parseEmailThrows(imapBad, loc[w].accountId, loc[w].folder, u)
          /\ ~ hist[w].disturbed )
        => /\ loc[w].result.emailsSynced = Cardinality(NewUids(w))
           /\ getHighestUid(emails, loc[w].accountId, loc[w].normalizedFolder)
                = Max(NewUids(w))
           /\ accounts[loc[w].accountId].lastFetchedUid = Max(NewUids(w))

\* a run has stored several new messages on top of rows mirrored before, in
\* more than one chunk
C13_Witness ==
    \E w \in Workers :
        /\ pc[w] = "returned"
        /\ loc[w].path = "imap"
        /\ ~ hist[w].disturbed
        /\ Cardinality(NewUids(w)) > 1
        /\ loc[w].chunkSize < Cardinality(NewUids(w))
        /\ hist[w].atCall # {}
        /\ \A u \in NewUids(w) :
              ~ parseEmailThrows(imapBad, loc[w].accountId, loc[w].folder, u)

\* C14: no step lowers an account's lastFetchedUid.
C14_LastFetchedUidMonotonic ==
    [][ \A a \in AccountIds :
           lastFetchedUidOr0(accounts'[a]) >= lastFetchedUidOr0(accounts[a]) ]_vars

\* C15: when a Graph run is about to insert its rows, their uids are above
\* every uid of the account's rows in the Email table, consecutive and
\* pairwise distinct.
C15_GraphUidsAboveMirror ==
    \A w \in Workers :
        pc[w] = "graph_create" =>
            LET data == loc[w].emailsToCreate
            IN  /\ \A k \in 1..Len(data) :
                      data[k].uid > getGlobalHighestUid(emails, loc[w].accountId)
                /\ \A k \in 1..(Len(data) - 1) : data[k + 1].uid = data[k].uid + 1

C16_GraphInitialSyncStoresEveryFolder ==
    \A a \in AccountIds :
       ( /\ job[a].type = "initial"
         /\ job[a].state = "completed"
         /\ accounts[a].refreshToken # NULL
         /\ \A k \in 1..Len(job[a].outcomes) : job[a].outcomes[k] = "ok" )
       => \A m \in graphMsgs :
             LET f == GraphFolderById(m.folderId)
             IN  f.displayName \in Range(job[a].folders)
                 => \E r \in emails :
                       /\ r.accountId = a
                       /\ r.messageId = <<"graph", m.id>>
                       /\ r.folder = normalizeFolderName(f.displayName, s_outlook,
                                                         f.wellKnownName, {})

\* the calls of create that have ended
EndedCreates == { w \in Workers : /\ loc[w].caller = "create"
                                  /\ pc[w] \in {"onboard_returned", "onboard_threw"} }

\* create stored a password row for the pair it was called with and queued
\* one initial-sync job {accountId, email} for that row
CreatedAndQueued(w) ==
    /\ loc[w].persisted # "none"
    /\ accounts[loc[w].persisted].exists
    /\ accounts[loc[w].persisted].userId = loc[w].dto.userId
    /\ accounts[loc[w].persisted].email = loc[w].dto.email
    /\ accounts[loc[w].persisted].password
    /\ loc[w].queued = << [accountId |-> loc[w].persisted, email |-> loc[w].dto.email] >>
    /\ job[loc[w].persisted].state = "waiting"
    /\ job[loc[w].persisted].type = "initial"
    /\ job[loc[w].persisted].accountId = loc[w].persisted

C19_OneAccountPerUserAndEmail ==
    /\ \A a \in AccountIds, b \in AccountIds :
          ( /\ a # b
            /\ accounts[a].exists
            /\ accounts[b].exists )
          => \/ accounts[a].userId # accounts[b].userId
             \/ accounts[a].email # accounts[b].email
    /\ \A w \in EndedCreates :
          loc[w].linkedAtCall
          => /\ loc[w].error = "Conflict"
             /\ loc[w].persisted = "none"
             /\ loc[w].queued = <<>>

\* two calls for the same pair ran at the same time, both passed the exists
\* test, and the insert of the second was refused
C19_Witness ==
    \E w1 \in Workers, w2 \in Workers :
       /\ w1 # w2
       /\ loc[w1].dto = loc[w2].dto
       /\ loc[w1].persisted # "none"
       /\ ~ loc[w2].exists
       /\ ~ loc[w2].linkedAtCall
       /\ pc[w2] = "onboard_threw"
       /\ loc[w2].error = "UniqueConstraint"

\* C20: every account row holds exactly one kind of credential: a password
\* and no tokens, or an access token and a refresh token and no password.
C20_ExactlyOneCredentialKind ==
    \A a \in AccountIds :
       accounts[a].exists
       => \/ /\ accounts[a].password
             /\ accounts[a].accessToken = NULL
             /\ accounts[a].refreshToken = NULL
          \/ /\ ~ accounts[a].password
             /\ accounts[a].accessToken # NULL
             /\ accounts[a].refreshToken # NULL

\* C21: a soft-deleted message is returned by no listing or search --
\* findById, findMany, searchEmails, searchBySender -- for any user, any
\* filter and any query.
C21_DeletedNeverListed ==
    \A r \in emails :
       r.deletedAt # NULL
       => /\ r \notin findById(emails, r.id)
          /\ \A u \in UserIds, acc \in AccountIds \cup {"any"},
                isRead \in {"any", "true", "false"} :
                r \notin findMany(emails, accounts, u,
                                  [accountId |-> acc, isRead |-> isRead])
          /\ \A u \in UserIds, matching \in SUBSET { x.id : x \in emails } :
                /\ r \notin searchEmails(emails, accounts, u, matching)
                /\ r \notin searchBySender(emails, accounts, u, matching)

\* C22: findOne answers NotFound for a message of an account the user does
\* not own, and no updateReadStatus request of a user changes a message of
\* another user's account.
C22_OnlyOwnerReadsAndModifies ==
    /\ \A r \in emails, u \in UserIds :
          OwnerOf(accounts, r) # u => findOne(emails, u, r.id).error = "NotFound"
    /\ \A w \in Workers :
          loc[w].caller = "updateReadStatus"
          => \A r \in emails :
                (r.id = loc[w].i /\ OwnerOf(accounts, r) # loc[w].dto.userId)
                => loc[w].error = "NotFound"

\* C23: no step of a syncFolder run, on the IMAP path or the Graph path,
\* changes or removes a row that is in the Email table: every row, with its
\* isRead and deletedAt values, is still there after the step.
C23_SyncOnlyAppends ==
    [][ (\E w \in Workers : pc'[w] # pc[w]) => emails \subseteq emails' ]_vars

\* a run that started with a read row and a soft-deleted row in the table
\* has stored rows of its own and returned
C23_Witness ==
    \E w \in Workers :
       /\ pc[w] = "returned"
       /\ loc[w].result.emailsSynced > 0
       /\ \E r \in hist[w].atCall : r.deletedAt # NULL
       /\ \E r \in hist[w].atCall : r.isRead
       /\ hist[w].atCall \subseteq emails

\* C24: a state value issued by generateOutlookState is accepted by
\* verifyOutlookState at most once: no two verifications of the same state,
\* one after the other or at the same time, both get its user.
C24_StateAcceptedAtMostOnce ==
    \A w1 \in Workers, w2 \in Workers :
       ( /\ w1 # w2
         /\ pc[w1] \in {"state_del", "state_returned"}
         /\ pc[w2] \in {"state_del", "state_returned"} )
       => loc[w1].i # loc[w2].i

\* a rule that does not apply
NoRule == <<"no rule">>

\* the answer of the first row of a rule's table that the arguments hit
FirstRow(rows, Hit(_)) ==
    LET hits == {i \in 1..Len(rows) : Hit(rows[i][1])}
    IN  IF hits = {} THEN NoRule
        ELSE rows[CHOOSE i \in hits : \A j \in hits : i <= j][2]

RuleExactInbox(folderPath) ==
    IF toUpperCase(folderPath) = s_INBOX THEN STANDARD_FOLDERS_INBOX ELSE NoRule

RuleSpecialUse(specialUse) ==
    LET use == toLowerCase(stripLeadingBackslash(specialUse))
        Hit(keys) == specialUse # <<>> /\ use \in keys
    IN  FirstRow(<< <<{<<"i","n","b","o","x">>}, STANDARD_FOLDERS_INBOX>>,
                    <<{<<"s","e","n","t">>}, STANDARD_FOLDERS_SENT>>,
                    <<{<<"d","r","a","f","t","s">>}, STANDARD_FOLDERS_DRAFTS>>,
                    <<{<<"t","r","a","s","h">>}, STANDARD_FOLDERS_TRASH>>,
                    <<{<<"j","u","n","k">>, <<"s","p","a","m">>}, STANDARD_FOLDERS_SPAM>>,
                    <<{<<"a","r","c","h","i","v","e">>}, STANDARD_FOLDERS_ARCHIVE>> >>, Hit)

RuleGraphName(folderPath) ==
    LET Hit(keys) == toLowerCase(folderPath) \in keys
    IN  FirstRow(<< <<{<<"i","n","b","o","x">>}, STANDARD_FOLDERS_INBOX>>,
                    <<{<<"s","e","n","t","i","t","e","m","s">>, <<"s","e","n","t"," ","i","t","e","m","s">>}, STANDARD_FOLDERS_SENT>>,
                    <<{<<"d","e","l","e","t","e","d","i","t","e","m","s">>, <<"d","e","l","e","t","e","d"," ","i","t","e","m","s">>}, STANDARD_FOLDERS_TRASH>>,
                    <<{<<"j","u","n","k","e","m","a","i","l">>, <<"j","u","n","k"," ","e","m","a","i","l">>}, STANDARD_FOLDERS_SPAM>>,
                    <<{<<"a","r","c","h","i","v","e">>}, STANDARD_FOLDERS_ARCHIVE>>,
                    <<{<<"d","r","a","f","t","s">>}, STANDARD_FOLDERS_DRAFTS>>,
                    <<{<<"c","o","n","v","e","r","s","a","t","i","o","n"," ","h","i","s","t","o","r","y">>}, <<"C","o","n","v","e","r","s","a","t","i","o","n"," ","H","i","s","t","o","r","y">>>>,
                    <<{<<"o","u","t","b","o","x">>}, <<"O","u","t","b","o","x">>>> >>, Hit)

RuleFlags(flags) ==
    LET Hit(keys) == keys \cap flags # {}
    IN  FirstRow(<< <<{<<"\\","S","e","n","t">>, <<"\\","S","e","n","t","M","a","i","l">>}, STANDARD_FOLDERS_SENT>>,
                    <<{<<"\\","D","r","a","f","t","s">>}, STANDARD_FOLDERS_DRAFTS>>,
                    <<{<<"\\","T","r","a","s","h">>}, STANDARD_FOLDERS_TRASH>>,
                    <<{<<"\\","J","u","n","k">>, <<"\\","S","p","a","m">>}, STANDARD_FOLDERS_SPAM>>,
                    <<{<<"\\","A","r","c","h","i","v","e">>}, STANDARD_FOLDERS_ARCHIVE>>,
                    <<{<<"\\","F","l","a","g","g","e","d">>, <<"\\","S","t","a","r","r","e","d">>}, STANDARD_FOLDERS_STARRED>> >>, Hit)

RuleProviderTable(folderPath, provider) ==
    LET rows == IF provider = <<>> THEN {} ELSE FOLDER_MAPPINGS(toLowerCase(provider))
    IN  IF \E m \in rows : m[1] = folderPath
        THEN (CHOOSE m \in rows : m[1] = folderPath)[2]
        ELSE NoRule

RuleHeuristics(folderPath) ==
    LET Hit(keys) == \E k \in keys : includes(toLowerCase(folderPath), k)
    IN  FirstRow(<< <<{<<"s","e","n","t">>}, STANDARD_FOLDERS_SENT>>,
                    <<{<<"d","r","a","f","t">>}, STANDARD_FOLDERS_DRAFTS>>,
                    <<{<<"t","r","a","s","h">>, <<"d","e","l","e","t","e","d">>, <<"b","i","n">>}, STANDARD_FOLDERS_TRASH>>,
                    <<{<<"s","p","a","m">>, <<"j","u","n","k">>}, STANDARD_FOLDERS_SPAM>>,
                    <<{<<"a","r","c","h","i","v","e">>, <<"a","l","l"," ","m","a","i","l">>}, STANDARD_FOLDERS_ARCHIVE>>,
                    <<{<<"i","m","p","o","r","t","a","n","t">>}, STANDARD_FOLDERS_IMPORTANT>>,
                    <<{<<"s","t","a","r","r","e","d">>, <<"f","l","a","g","g","e","d">>}, STANDARD_FOLDERS_STARRED>> >>, Hit)

\* the answers of the rules in the order exact INBOX, special-use, Graph
\* name, flags, provider table, heuristics, raw path
RuleAnswers(args) ==
    << RuleExactInbox(args[1]), RuleSpecialUse(args[3]), RuleGraphName(args[1]),
       RuleFlags(args[4]), RuleProviderTable(args[1], args[2]),
       RuleHeuristics(args[1]), args[1] >>

\* C25: every call of normalizeFolderName returns the answer of the first
\* rule that applies, in the order exact INBOX, special-use value, Graph
\* display name, folder flags, provider table, substring heuristics, raw
\* path; and calls on equal arguments return equal results.
C25_FirstApplicableRuleWins ==
    LET answers == RuleAnswers(call.args)
        first   == CHOOSE i \in 1..7 :
                       /\ answers[i] # NoRule
                       /\ \A j \in 1..(i - 1) : answers[j] = NoRule
    IN  /\ \A i \in 1..Len(call.result) : call.result[i] = answers[first]
        /\ \A i, j \in 1..Len(call.result) : call.result[i] = call.result[j]

\* two calls were made on arguments to which two rules apply with different
\* answers: the special-use value and the flags, or the flags and the heuristics
C25_Witness ==
    LET answers == RuleAnswers(call.args)
    IN  /\ Len(call.result) >= 2
        /\ answers[1] = NoRule
        /\ answers[2] # NoRule
        /\ answers[4] # NoRule
        /\ answers[2] # answers[4]
        /\ answers[6] # NoRule
        /\ answers[6] # answers[2]

\* C26: with every migration applied, no two email_fts rows have the same
\* email_id, every email_fts row belongs to a row of Email and holds the
\* vector of that row as it is now, whatever inserts, updates and hard
\* deletes were made.
C26_OneFtsRowPerMessage ==
    /\ \A i, j \in 1..Len(email_fts) :
          email_fts[i].email_id = email_fts[j].email_id => i = j
    /\ \A i \in 1..Len(email_fts) :
          \E r \in emails : /\ r.id = email_fts[i].email_id
                            /\ email_fts[i].search_vector = to_tsvector(r)

\* a row was inserted and then updated and has its email_fts row, and
\* another row was hard-deleted
C26_Witness ==
    /\ \E r \in emails :
          /\ r.isRead
          /\ \E i \in 1..Len(email_fts) : email_fts[i].email_id = r.id
    /\ \E id \in 1..(nextId - 1) : \A r \in emails : r.id # id

\* C27: a client holds a mailbox lock only while the body of
\* fetchEmailsByUid or getHighestUid runs; once the call returned or threw
\* -- the fetch or the status call having failed or not -- the lock it
\* acquired is released.
C27_LockReleasedOnEveryExit ==
    \A l \in locks : pc[l.client] = "client_body" /\ loc[l.client].folder = l.folder

\* a fetchEmailsByUid call ended by throwing after it had acquired the
\* lock, while the other client still holds the lock of its own call
C27_Witness ==
    \E w, v \in Workers :
       /\ pc[w] = "client_threw"
       /\ loc[w].caller = "fetchEmailsByUid"
       /\ loc[w].error = "body"
       /\ pc[v] = "client_body"
       /\ \E l \in locks : l.client = v

\* C28: with a secret of at least 32 characters, decrypt of what encrypt
\* returned gives the plaintext back, and decrypt of a string of which the
\* salt, iv, tag or data part was altered ends with an error.
C28_RoundTripAndTamperDetected ==
    (call.fn = "decrypt" /\ Len(call.args[2]) >= 32) =>
        IF call.args[3]
        THEN call.result.error # "none"
        ELSE call.result = [error |-> "none", value |-> call.args[1]]

\* C29: when a syncFolder call on the IMAP path threw after it had stored
\* a chunk and before its last chunk, and a later call for the same
\* account and folder returns, the server's mailbox being the same, every
\* UID of the folder on the server has its row in the mirror.
C29_RetryFinishesInterruptedSync ==
    \A w \in Workers :
       LET id == loc[w].accountId
           mirror == { r \in emails : r.accountId = id /\ r.folder = loc[w].normalizedFolder }
       IN  ( /\ pc[w] = "returned"
             /\ loc[w].path = "imap"
             /\ <<id, loc[w].folder>> \in hist[w].interrupted
             /\ imapBad = {}
             /\ \A r \in mirror : r.messageId[1] = loc[w].folder /\ r.deletedAt = NULL )
           => \A uid \in imapBox[id][loc[w].folder] : \E r \in mirror : r.uid = uid

\* C30: when a job has synced every discovered folder of a password
\* account and every syncFolder call returned, each message the server
\* holds in those folders has a row of its own -- the account, the
\* message's UID, the canonical name of its folder and the message's
\* content -- also when two of the folders have the same canonical name and
\* UIDs in common.
C30_EveryServerMessageHasItsRow ==
    \A a \in AccountIds :
       ( /\ job[a].state = "completed"
         /\ accounts[a].refreshToken = NULL
         /\ job[a].folders # <<>>
         /\ Len(job[a].outcomes) = Len(job[a].folders)
         /\ \A k \in 1..Len(job[a].outcomes) : job[a].outcomes[k] = "ok"
         /\ imapBad = {} )
       => \A f \in Range(job[a].folders) : \A uid \in imapBox[a][f] :
             \E r \in emails :
                /\ r.accountId = a
                /\ r.uid = uid
                /\ r.folder = CanonicalOf(a, f)
                /\ r.messageId = <<f, uid>>

\* C31: every password account whose syncedFolders (flags) is empty has an
\* initial-sync job that is waiting (queued or awaiting its retry) or
\* active: no account is left without synced folders and without a job
\* that would sync it.
C31_UnsyncedAccountHasLiveJob ==
    \A a \in AccountIds :
       ( /\ accounts[a].exists
         /\ accounts[a].refreshToken = NULL
         /\ accounts[a].flags = <<>> )
       => /\ job[a].type = "initial"
          /\ job[a].state \in {"waiting", "active"}

\* C32: the name a returned syncFolder call wrote into the account's flags
\* (syncedFolders) is one that the lookup of a later call resolves to the
\* server folder that was synced: the same path on the IMAP path, a Graph
\* folder with that display name and the same id on the Graph path.
C32_RecordedNameResolvesToSameFolder ==
    \A w \in Workers :
       (pc[w] = "returned" /\ loc[w].flagName # <<>>)
       => IF loc[w].path = "imap"
          THEN /\ loc[w].flagName = loc[w].folder
               /\ loc[w].flagName \in DOMAIN imapBox[loc[w].accountId]
          ELSE \E k \in 1..Len(GraphFolders) :
                  /\ GraphFolders[k].displayName = loc[w].flagName
                  /\ GraphFolders[k].id = loc[w].matchedFolder

\* C33: when a Graph-path syncFolder call of a folder has returned, every
\* message of that folder either has its row or is still inside the window
\* of the next run (receivedDateTime >= account.lastSyncedAt): no message
\* that arrived while a run was under way is left behind lastSyncedAt, where
\* no later run would fetch it.
C33_ArrivedMessageStaysFetchable ==
    \A w \in Workers :
       (pc[w] = "returned" /\ loc[w].path = "graph" /\ loc[w].matchedFolder # "none")
       => \A m \in graphMsgs :
             m.folderId = loc[w].matchedFolder
             => \/ \E r \in emails : /\ r.accountId = loc[w].accountId
                                     /\ r.messageId = <<"graph", m.id>>
                \/ m.receivedDateTime >= accounts[loc[w].accountId].lastSyncedAt

\* C34: for a token (Graph) account no two rows of the Email table with the
\* same account and folder carry the same messageId: no upstream message is
\* stored twice, whatever the sequence of syncFolder runs.
C34_GraphMessageStoredOnce ==
    \A r1, r2 \in emails :
       ( /\ accounts[r1.accountId].refreshToken # NULL
         /\ r1.accountId = r2.accountId
         /\ r1.folder = r2.folder
         /\ r1.messageId = r2.messageId )
       => r1.id = r2.id

\* C35: the account's flags (syncedFolders) hold no name twice, and hold the
\* name written by every syncFolder call that has returned after adding its
\* folder: a name once added is not lost to a concurrent run on the account.
C35_SyncedFoldersKeepEveryAddedName ==
    \A a \in AccountIds :
       LET flags == accounts[a].flags
       IN  /\ \A i, j \in 1..Len(flags) : flags[i] = flags[j] => i = j
           /\ \A w \in Workers :
                 ( /\ pc[w] = "returned"
                   /\ loc[w].accountId = a
                   /\ loc[w].flagName # <<>> )
                 => loc[w].flagName \in Range(flags)

\* the tokens handed out by the returned rotateRefreshToken calls that
\* presented the token tokenId
SuccessorsOf(tokenId) ==
    { loc[w].newRefreshToken[1] :
         w \in { x \in Workers : pc[x] = "rotate_returned" /\ loc[x].tokenId = tokenId } }

\* C36: of the rotateRefreshToken calls that presented the same token at most
\* one has returned a new pair, and at most one non-revoked successor of the
\* token exists.
C36_TokenRotatedAtMostOnce ==
    \A tokenId \in 1..(MaxTokens + 1) :
       /\ Cardinality({ w \in Workers : /\ pc[w] = "rotate_returned"
                                        /\ loc[w].tokenId = tokenId }) <= 1
       /\ Cardinality({ t \in refreshTokens : /\ t.id \in SuccessorsOf(tokenId)
                                              /\ ~ t.isRevoked }) <= 1

\* the rows a step adds to the Email table
InsertedByStep == { n \in emails' : \A o \in emails : o.id # n.id }

\* the rows added to the Email table since the call of worker w began
InsertedSinceCall(w) == { e \in emails : \A o \in hist[w].atCall : o.id # e.id }

\* C37: within one IMAP syncFolder call every chunk fetches at most chunkSize
\* messages, and the rows a chunk inserts have uids below the uid of every
\* row inserted by the earlier chunks of the call: the chunks are persisted
\* in strictly descending UID order.
C37_ChunksPersistedNewestFirst ==
    [][ \A w \in Workers :
           /\ (pc[w] = "imap_fetch" /\ pc'[w] = "imap_filter")
              => Len(loc'[w].messages) <= loc[w].chunkSize
           /\ (pc[w] = "imap_create" /\ pc'[w] = "imap_fetch")
              => /\ Cardinality(InsertedByStep) <= loc[w].chunkSize
                 /\ \A n \in InsertedByStep, e \in InsertedSinceCall(w) :
                       e.uid > n.uid ]_vars

\* a call with chunks of one message has stored two chunks
C37_Witness ==
    \E w \in Workers :
       /\ pc[w] = "imap_fetch"
       /\ loc[w].chunkSize = 1
       /\ loc[w].i >= 2
       /\ Cardinality(InsertedSinceCall(w)) >= 2

\* the canonical folder names
CanonicalNames ==
    { <<"I","N","B","O","X">>, <<"S","e","n","t">>, <<"D","r","a","f","t","s">>, <<"T","r","a","s","h">>, <<"S","p","a","m">>, <<"A","r","c","h","i","v","e">>, <<"I","m","p","o","r","t","a","n","t">>, <<"S","t","a","r","r","e","d">> }

\* C38: every value normalizeFolderName returns is a defined, non-empty
\* string: one of the canonical names INBOX, Sent, Drafts, Trash, Spam,
\* Archive, Important, Starred, or the folder path it was given.
C38_ResultIsDefinedName ==
    \A i \in 1..Len(call.result) :
       /\ call.result[i] # undefined
       /\ call.result[i] # <<>>
       /\ call.result[i] \in CanonicalNames \cup {call.args[1]}

\* the priority table by canonical name
PriorityOfCanonical(name) ==
    IF name = <<"I","N","B","O","X">> THEN 100
    ELSE IF name = <<"S","e","n","t">> THEN 90
    ELSE IF name = <<"D","r","a","f","t","s">> THEN 80
    ELSE IF name = <<"I","m","p","o","r","t","a","n","t">> THEN 75
    ELSE IF name = <<"A","r","c","h","i","v","e">> THEN 70
    ELSE IF name = <<"S","p","a","m">> THEN 50
    ELSE IF name = <<"T","r","a","s","h">> THEN 40
    ELSE 60

\* the priority of a listed folder: the table value of its canonical name
PriorityOfListed(path, provider) ==
    PriorityOfCanonical(normalizeFolderName(path, provider, <<>>, {}))

\* C39: discoverFolders returns the sync-eligible folders of the listing by
\* non-increasing priority of their canonical names (INBOX 100, Sent 90,
\* Drafts 80, Important 75, Archive 70, other 60, Spam 50, Trash 40), folders
\* of equal priority in listing order.
C39_DiscoveredByCanonicalPriority ==
    call.fn = "discoverFolders"
    => LET paths    == call.args[1]
           provider == call.args[2]
           result   == call.result
           At(p)    == CHOOSE k \in 1..Len(paths) : paths[k] = p
       IN  /\ Range(result) = { p \in Range(paths) : shouldSyncFolder(p) }
           /\ \A i, j \in 1..Len(result) :
                 i < j =>
                    \/ PriorityOfListed(result[i], provider)
                         > PriorityOfListed(result[j], provider)
                    \/ /\ PriorityOfListed(result[i], provider)
                            = PriorityOfListed(result[j], provider)
                       /\ At(result[i]) < At(result[j])

====
